---- MODULE Spec2Model ----
(***************************************************************************)
(* Model of stampli's threshold table (levels.go) and layered             *)
(* configuration resolver (main.go).                                       *)
(*                                                                         *)
(* Text is a sequence of one-character strings.  A float64 threshold or    *)
(* coverage is a fixed-point integer counting hundredths (80.0 is 8000,    *)
(* 85.5 is 8550); the texts the model feeds to the parser are decimal      *)
(* literals with at most two fraction digits, on which this is exact.      *)
(***************************************************************************)
EXTENDS Integers, Sequences, FiniteSets, TLC

VARIABLES l, ret, c, other, a, files, args, cfg2, coverageFlag, pc

vars == <<l, ret, c, other, a, files, args, cfg2, coverageFlag, pc>>

(* ------------------------------ bounds --------------------------------- *)

\* Largest number of comma-separated segments in a text handed to Set.
MaxSegs == 2

(* ------------------------- strings (package strings) ------------------- *)

\* Hundredths per unit of a float64 value.
Scale == 100

DigitChars == <<"0", "1", "2", "3", "4", "5", "6", "7", "8", "9">>

IsDigit(ch) == \E i \in 1..10 : DigitChars[i] = ch

DigitVal(ch) == (CHOOSE i \in 1..10 : DigitChars[i] = ch) - 1

IsSpace(ch) == ch \in {" ", "\t"}

RECURSIVE TrimLeft(_)
TrimLeft(s) ==
    IF s # <<>> /\ IsSpace(Head(s)) THEN TrimLeft(Tail(s)) ELSE s

RECURSIVE TrimRight(_)
TrimRight(s) ==
    IF s # <<>> /\ IsSpace(s[Len(s)]) THEN TrimRight(SubSeq(s, 1, Len(s) - 1)) ELSE s

\* strings.TrimSpace
TrimSpace(s) == TrimRight(TrimLeft(s))

\* Index of the first occurrence of ch in s, 0 when there is none.
IndexOf(s, ch) ==
    IF \E i \in 1..Len(s) : s[i] = ch
    THEN CHOOSE i \in 1..Len(s) : s[i] = ch /\ \A j \in 1..(i - 1) : s[j] # ch
    ELSE 0

\* strings.SplitSeq(s, sep): every segment between separators, empty ones kept.
RECURSIVE SplitSeq(_, _)
SplitSeq(s, sep) ==
    LET i == IndexOf(s, sep) IN
    IF i = 0 THEN <<s>>
    ELSE <<SubSeq(s, 1, i - 1)>> \o SplitSeq(SubSeq(s, i + 1, Len(s)), sep)

\* strings.SplitN(s, sep, 2): split at the first separator only.
SplitN2(s, sep) ==
    LET i == IndexOf(s, sep) IN
    IF i = 0 THEN <<s>>
    ELSE <<SubSeq(s, 1, i - 1), SubSeq(s, i + 1, Len(s))>>

\* strings.Join
RECURSIVE Join(_, _)
Join(parts, sep) ==
    IF parts = <<>> THEN <<>>
    ELSE IF Len(parts) = 1 THEN parts[1]
    ELSE parts[1] \o <<sep>> \o Join(Tail(parts), sep)

(* ------------------------- numbers (strconv, fmt) ---------------------- *)

RECURSIVE DigitsVal(_)
DigitsVal(s) ==
    IF s = <<>> THEN 0 ELSE 10 * DigitsVal(SubSeq(s, 1, Len(s) - 1)) + DigitVal(s[Len(s)])

AllDigits(s) == \A i \in 1..Len(s) : IsDigit(s[i])

\* Fraction digits as hundredths: "5" is 50, "55" is 55, "" is 0.
FracVal(s) ==
    IF Len(s) = 0 THEN 0
    ELSE IF Len(s) = 1 THEN 10 * DigitVal(s[1])
    ELSE DigitsVal(SubSeq(s, 1, 2))

Signed(neg, mag) == IF neg THEN 0 - mag ELSE mag

\* The value of integer digits ip and fraction digits fp.
ParseParts(neg, ip, fp) ==
    IF AllDigits(ip) /\ AllDigits(fp) /\ Len(ip) + Len(fp) > 0
    THEN [ok |-> TRUE, v |-> Signed(neg, Scale * DigitsVal(ip) + FracVal(fp))]
    ELSE [ok |-> FALSE, v |-> 0]

\* body split at its decimal point, dot being the point's index or 0.
ParseAt(neg, body, dot) ==
    ParseParts(neg,
               IF dot = 0 THEN body ELSE SubSeq(body, 1, dot - 1),
               IF dot = 0 THEN <<>> ELSE SubSeq(body, dot + 1, Len(body)))

ParseBody(neg, body) == ParseAt(neg, body, IndexOf(body, "."))

\* strconv.ParseFloat(s, 64) on decimal literals: optional sign, digits,
\* optional point and digits, at least one digit in all.
ParseFloat(s) ==
    ParseBody(s # <<>> /\ Head(s) = "-",
              IF s # <<>> /\ Head(s) \in {"+", "-"} THEN Tail(s) ELSE s)

RECURSIVE NatDigits(_)
NatDigits(n) ==
    IF n < 10 THEN <<DigitChars[n + 1]>>
    ELSE NatDigits(n \div 10) \o <<DigitChars[(n % 10) + 1]>>

\* Magnitude x (hundredths) rounded to a whole number, ties to even, as
\* strconv rounds an exactly representable half.
RoundHalfEven(x) ==
    LET q == x \div Scale
        r == x % Scale
    IN  IF 2 * r < Scale THEN q
        ELSE IF 2 * r > Scale THEN q + 1
        ELSE IF q % 2 = 0 THEN q ELSE q + 1

\* A formatter that drops the fraction instead of rounding it.
FormatF0Truncate(k) ==
    IF k < 0 THEN <<"-">> \o NatDigits((0 - k) \div Scale)
    ELSE NatDigits(k \div Scale)

\* fmt.Sprintf("%.0f", k)
FormatF0(k) ==
    IF k < 0 THEN <<"-">> \o NatDigits(RoundHalfEven(0 - k))
    ELSE NatDigits(RoundHalfEven(k))

(* ------------------------------ util.go -------------------------------- *)

IsHexDigit(ch) ==
    \/ IsDigit(ch)
    \/ ch \in {"a", "b", "c", "d", "e", "f"}
    \/ ch \in {"A", "B", "C", "D", "E", "F"}

\* A validation that accepts any number of hex digits after the '#'.
isValidHexColorAnyLength(color) ==
    IF color = <<>> \/ Head(color) # "#" THEN FALSE
    ELSE \A i \in 1..Len(Tail(color)) : IsHexDigit(Tail(color)[i])

isValidHexColor(color) ==
    IF color = <<>> \/ Head(color) # "#" THEN FALSE
    ELSE LET rest == Tail(color) IN
         IF Len(rest) # 3 /\ Len(rest) # 6 THEN FALSE
         ELSE \A i \in 1..Len(rest) : IsHexDigit(rest[i])

(* ------------------------------ levels.go ------------------------------ *)

\* A Levels value: nil, or a map from threshold to color.
NilLevels == [nil |-> TRUE, m |-> <<>>]

MkLevels(m) == [nil |-> FALSE, m |-> m]

\* (*l)[level] = color
MapPut(m, k, v) == [x \in (DOMAIN m) \cup {k} |-> IF x = k THEN v ELSE m[x]]

SetMax(S) == CHOOSE x \in S : \A y \in S : y <= x

SetMin(S) == CHOOSE x \in S : \A y \in S : x <= y

\* sort.Float64s
RECURSIVE SortAsc(_)
SortAsc(S) ==
    IF S = {} THEN <<>> ELSE <<SetMin(S)>> \o SortAsc(S \ {SetMin(S)})

\* sort.Sort(sort.Reverse(sort.Float64Slice(...)))
RECURSIVE SortDesc(_)
SortDesc(S) ==
    IF S = {} THEN <<>> ELSE <<SetMax(S)>> \o SortDesc(S \ {SetMax(S)})

errNone == "nil"

SetOK(m) == [m |-> m, err |-> errNone, msg |-> <<>>]

SetErr(m, err, msg) == [m |-> m, err |-> err, msg |-> msg]

RECURSIVE SetLoop(_, _)

\* A Set that keeps the first color given for a threshold.
SetColorKeepFirst(levelStr, pf, color, rest, m) ==
    IF ~pf.ok THEN SetErr(m, "errInvalidLevelNumber", levelStr)
    ELSE IF ~isValidHexColor(color) THEN SetErr(m, "errInvalidHexColor", color)
    ELSE IF pf.v \in DOMAIN m THEN SetLoop(rest, m)
    ELSE SetLoop(rest, MapPut(m, pf.v, color))

\* A Set that skips a pair with an invalid color instead of failing.
SetColorSkipInvalid(levelStr, pf, color, rest, m) ==
    IF ~pf.ok THEN SetErr(m, "errInvalidLevelNumber", levelStr)
    ELSE IF ~isValidHexColor(color) THEN SetLoop(rest, m)
    ELSE SetLoop(rest, MapPut(m, pf.v, color))

\* A Set that stores the color without validating it.
SetColorUnchecked(levelStr, pf, color, rest, m) ==
    IF ~pf.ok THEN SetErr(m, "errInvalidLevelNumber", levelStr)
    ELSE SetLoop(rest, MapPut(m, pf.v, color))

\* Levels.Set, lines 74-79: the color is validated and the entry stored.
SetColor(levelStr, pf, color, rest, m) ==
    IF ~pf.ok THEN SetErr(m, "errInvalidLevelNumber", levelStr)
    ELSE IF ~isValidHexColor(color) THEN SetErr(m, "errInvalidHexColor", color)
    ELSE SetLoop(rest, MapPut(m, pf.v, color))

\* Levels.Set, lines 59-72: an empty threshold token is level 0.
SetLevel(levelStr, color, rest, m) ==
    SetColor(levelStr,
             IF levelStr = <<>> THEN [ok |-> TRUE, v |-> 0] ELSE ParseFloat(levelStr),
             color, rest, m)

\* Levels.Set, lines 54-57: the pair is split at its first '='.
SetPair(part, kv, rest, m) ==
    IF Len(kv) # 2 THEN SetErr(m, "errInvalidLevelFormat", part)
    ELSE SetLevel(TrimSpace(kv[1]), TrimSpace(kv[2]), rest, m)

\* Levels.Set, lines 49-52: a segment that trims to nothing is skipped.
SetPart(part, rest, m) ==
    IF part = <<>> THEN SetLoop(rest, m)
    ELSE SetPair(part, SplitN2(part, "="), rest, m)

\* Levels.Set, line 48: the loop over the comma-separated segments.
SetLoop(parts, m) ==
    IF parts = <<>> THEN SetOK(m)
    ELSE SetPart(TrimSpace(Head(parts)), Tail(parts), m)

SetResult(r) == [l |-> MkLevels(r.m), err |-> r.err, msg |-> r.msg]

\* Levels.Set: the table after the call (also after a failed one) and the
\* error; line 46 starts from an empty map.
LevelsSet(value) == SetResult(SetLoop(SplitSeq(value, ","), <<>>))

Fallback == <<"#", "f", "f", "0", "0", "0", "1">>

RECURSIVE FirstMet(_, _, _)
FirstMet(sortedLevels, m, coverage) ==
    IF sortedLevels = <<>> THEN Fallback
    ELSE IF coverage >= Head(sortedLevels) THEN m[Head(sortedLevels)]
    ELSE FirstMet(Tail(sortedLevels), m, coverage)

\* A lookup that forgets to reverse the sort.
GetColorForCoverageAscending(lv, coverage) ==
    FirstMet(SortAsc(DOMAIN lv.m), lv.m, coverage)

\* Levels.GetColorForCoverage
GetColorForCoverage(lv, coverage) ==
    FirstMet(SortDesc(DOMAIN lv.m), lv.m, coverage)

RECURSIVE StringParts(_, _)
StringParts(keys, m) ==
    IF keys = <<>> THEN <<>>
    ELSE <<FormatF0(Head(keys)) \o <<"=">> \o m[Head(keys)]>> \o StringParts(Tail(keys), m)

\* A String that lists the thresholds in descending order.
LevelsStringDescending(lv) ==
    IF Cardinality(DOMAIN lv.m) = 0 THEN <<>>
    ELSE Join(StringParts(SortDesc(DOMAIN lv.m), lv.m), ",")

\* A String that joins the pairs with a space.
LevelsStringSpaced(lv) ==
    IF Cardinality(DOMAIN lv.m) = 0 THEN <<>>
    ELSE Join(StringParts(SortAsc(DOMAIN lv.m), lv.m), " ")

\* Levels.String
LevelsString(lv) ==
    IF Cardinality(DOMAIN lv.m) = 0 THEN <<>>
    ELSE Join(StringParts(SortAsc(DOMAIN lv.m), lv.m), ",")

(* ------------------------------- main.go ------------------------------- *)

\* A *float64: nil, or a pointer to v.
NilPtr == [set |-> FALSE, v |-> 0]

PtrTo(x) == [set |-> TRUE, v |-> x]

\* The zero value of type config.
ZeroConfig ==
    [Levels |-> NilLevels, CoveragePC |-> NilPtr, TestCommand |-> "",
     OutputFile |-> "", ConfigFile |-> "", Template |-> "",
     DumpTemplate |-> FALSE, DumpConfig |-> FALSE, Quiet |-> FALSE,
     AutoClean |-> FALSE]

\* The JSON keys of config's fields, by the struct tags.
StringKeys == {"testCommand", "outputFile", "template"}

BoolKeys == {"dumpTemplate", "dumpConfig", "quiet", "autoClean"}

\* A JSON document is [valid, members]; members are the object's key/value
\* pairs in the order they are written.  String values other than the
\* levels text are valid UTF-8, which encoding/json writes and reads back
\* unchanged.
JSONObject(members) == [valid |-> TRUE, members |-> members]

\* A JSON or flag value: a string, a levels or number text, or a boolean.
StrVal(x) == [s |-> x, t |-> <<>>, b |-> FALSE]

TextVal(x) == [s |-> "", t |-> x, b |-> FALSE]

BoolVal(x) == [s |-> "", t |-> <<>>, b |-> x]

InvalidJSON == [valid |-> FALSE, members |-> <<>>]

\* The scalar members of a marshalled config.
ScalarMembers(cfg) ==
    <<[k |-> "testCommand", v |-> StrVal(cfg.TestCommand)],
      [k |-> "outputFile", v |-> StrVal(cfg.OutputFile)],
      [k |-> "template", v |-> StrVal(cfg.Template)],
      [k |-> "dumpTemplate", v |-> BoolVal(cfg.DumpTemplate)],
      [k |-> "dumpConfig", v |-> BoolVal(cfg.DumpConfig)],
      [k |-> "quiet", v |-> BoolVal(cfg.Quiet)],
      [k |-> "autoClean", v |-> BoolVal(cfg.AutoClean)]>>

\* A Marshal whose scalar fields are tagged omitempty.
MarshalOmitEmpty(cfg) ==
    JSONObject(
        (IF cfg.Levels.nil THEN <<>>
         ELSE <<[k |-> "levels", v |-> TextVal(LevelsString(cfg.Levels))]>>)
        \o SelectSeq(ScalarMembers(cfg), LAMBDA mem : mem.v # StrVal("")))

\* A Marshal whose levels field is not tagged omitzero.
MarshalNoOmitZero(cfg) ==
    JSONObject(<<[k |-> "levels", v |-> TextVal(LevelsString(cfg.Levels))]>>
               \o ScalarMembers(cfg))

\* json.Marshal of a config: fields in struct order, levels omitted when the
\* map is nil (omitzero) and written as Levels.String otherwise
\* (Levels.MarshalJSON); CoveragePC and ConfigFile are tagged "-".
Marshal(cfg) ==
    JSONObject(
        (IF cfg.Levels.nil THEN <<>>
         ELSE <<[k |-> "levels", v |-> TextVal(LevelsString(cfg.Levels))]>>)
        \o ScalarMembers(cfg))

\* A decoder that lets a document set the coverage.
StoreMemberCoverage(cfg, mem) ==
    IF mem.k \in {"CoveragePC", "coveragePC"}
    THEN [cfg EXCEPT !.CoveragePC = PtrTo(9000)]
    ELSE cfg

\* Decoding one member into the struct; unknown keys are ignored.
StoreMember(cfg, mem) ==
    CASE mem.k = "testCommand"  -> [cfg EXCEPT !.TestCommand = mem.v.s]
      [] mem.k = "outputFile"   -> [cfg EXCEPT !.OutputFile = mem.v.s]
      [] mem.k = "template"     -> [cfg EXCEPT !.Template = mem.v.s]
      [] mem.k = "dumpTemplate" -> [cfg EXCEPT !.DumpTemplate = mem.v.b]
      [] mem.k = "dumpConfig"   -> [cfg EXCEPT !.DumpConfig = mem.v.b]
      [] mem.k = "quiet"        -> [cfg EXCEPT !.Quiet = mem.v.b]
      [] mem.k = "autoClean"    -> [cfg EXCEPT !.AutoClean = mem.v.b]
      [] OTHER                  -> cfg

Decoded(cfg, err, msg) == [cfg |-> cfg, err |-> err, msg |-> msg]

RECURSIVE UnmarshalMembers(_, _)

\* Levels.UnmarshalJSON: the text goes through Levels.Set, and an error
\* stops the decoding with the table as Set left it.
UnmarshalLevels(r, rest, cfg) ==
    IF r.err # errNone THEN Decoded([cfg EXCEPT !.Levels = r.l], r.err, r.msg)
    ELSE UnmarshalMembers(rest, [cfg EXCEPT !.Levels = r.l])

UnmarshalMember(mem, rest, cfg) ==
    IF mem.k = "levels" THEN UnmarshalLevels(LevelsSet(mem.v.t), rest, cfg)
    ELSE UnmarshalMembers(rest, StoreMember(cfg, mem))

\* The decoder walks the members in the order they are written, so the
\* members before a failing one are already stored.
UnmarshalMembers(ms, cfg) ==
    IF ms = <<>> THEN Decoded(cfg, errNone, <<>>)
    ELSE UnmarshalMember(Head(ms), Tail(ms), cfg)

\* An Unmarshal that decodes into a zeroed struct.
UnmarshalZeroed(doc, cfg) ==
    IF ~doc.valid THEN Decoded(cfg, "SyntaxError", <<>>)
    ELSE UnmarshalMembers(doc.members,
                          [ZeroConfig EXCEPT !.ConfigFile = cfg.ConfigFile])

\* json.Unmarshal(data, cfg): a syntax error is found before anything is stored.
Unmarshal(doc, cfg) ==
    IF ~doc.valid THEN Decoded(cfg, "SyntaxError", <<>>)
    ELSE UnmarshalMembers(doc.members, cfg)

Merged(cfg, err, cause, msg) == [c |-> cfg, err |-> err, cause |-> cause, msg |-> msg]

\* A merge that copies the coverage pointer also when it is nil.
MergeDecodedAlways(r, oth) ==
    IF r.err # errNone
    THEN Merged(r.cfg, "failed to unmarshal into current config", r.err, r.msg)
    ELSE Merged([r.cfg EXCEPT !.CoveragePC = oth.CoveragePC], errNone, errNone, <<>>)

\* config.merge, lines 83-91, r being the outcome of the Unmarshal.
MergeDecoded(r, oth) ==
    IF r.err # errNone
    THEN Merged(r.cfg, "failed to unmarshal into current config", r.err, r.msg)
    ELSE IF oth.CoveragePC.set
    THEN Merged([r.cfg EXCEPT !.CoveragePC = oth.CoveragePC], errNone, errNone, <<>>)
    ELSE Merged(r.cfg, errNone, errNone, <<>>)

\* config.merge: the receiver after the call and the error.
merge(cfg, oth) == MergeDecoded(Unmarshal(Marshal(oth), cfg), oth)

\* const defaultConfigFile
defaultConfigFile == "stampli.json"

\* The flag definitions of loadConfig: cfg2 starts from the flags' default
\* values, which are the fields of cfg at definition time; -levels has no
\* default, and -config is bound to cfg.ConfigFile.
FlagDefaults(cfg) ==
    [ZeroConfig EXCEPT !.TestCommand = cfg.TestCommand,
                       !.OutputFile = cfg.OutputFile,
                       !.Template = cfg.Template,
                       !.DumpTemplate = cfg.DumpTemplate,
                       !.DumpConfig = cfg.DumpConfig,
                       !.Quiet = cfg.Quiet,
                       !.AutoClean = cfg.AutoClean]

FlagNames ==
    {"command", "output", "config", "template", "levels", "dump-template",
     "dump-config", "quiet", "auto-clean", "coverage"}

\* A -levels flag whose parse error is dropped.
ParseLevelsFlagLenient(st, r) == [st EXCEPT !.cfg2.Levels = r.l]

\* The -levels flag: Levels.Set on cfg2.Levels.
ParseLevelsFlag(st, r) ==
    [st EXCEPT !.cfg2.Levels = r.l,
               !.err = IF r.err = errNone THEN errNone ELSE "failed to parse flags",
               !.cause = r.err, !.msg = r.msg]

\* The -coverage flag, lines 134-144.
ParseCoverageFlag(st, pf, text) ==
    IF pf.ok THEN [st EXCEPT !.cov = PtrTo(pf.v)]
    ELSE [st EXCEPT !.err = "failed to parse flags", !.cause = "ParseFloat",
                    !.msg = text]

\* fs.Parse applied to one flag; st is [cfg2, ConfigFile, cov, err, cause, msg].
ParseOne(st, arg) ==
    CASE arg.f = "command"       -> [st EXCEPT !.cfg2.TestCommand = arg.v.s]
      [] arg.f = "output"        -> [st EXCEPT !.cfg2.OutputFile = arg.v.s]
      [] arg.f = "config"        -> [st EXCEPT !.ConfigFile = arg.v.s]
      [] arg.f = "template"      -> [st EXCEPT !.cfg2.Template = arg.v.s]
      [] arg.f = "dump-template" -> [st EXCEPT !.cfg2.DumpTemplate = arg.v.b]
      [] arg.f = "dump-config"   -> [st EXCEPT !.cfg2.DumpConfig = arg.v.b]
      [] arg.f = "quiet"         -> [st EXCEPT !.cfg2.Quiet = arg.v.b]
      [] arg.f = "auto-clean"    -> [st EXCEPT !.cfg2.AutoClean = arg.v.b]
      [] arg.f = "levels"        -> ParseLevelsFlag(st, LevelsSet(arg.v.t))
      [] arg.f = "coverage"      -> ParseCoverageFlag(st, ParseFloat(arg.v.t), arg.v.t)
      [] OTHER                   ->
            [st EXCEPT !.err = "failed to parse flags",
                       !.cause = "flag provided but not defined"]

\* fs.Parse: flags are applied left to right and the first error stops it.
RECURSIVE ParseArgs(_, _)
ParseArgs(st, as) ==
    IF as = <<>> \/ st.err # errNone THEN st
    ELSE ParseArgs(ParseOne(st, Head(as)), Tail(as))

\* os.ReadFile succeeds exactly on the files that exist (and are readable).
NoFile == [exists |-> FALSE, doc |-> InvalidJSON]

FileOf(doc) == [exists |-> TRUE, doc |-> doc]

(* ----------------------- inputs of the threshold table ----------------- *)

\* Segments of a -levels text, after the cases of TestLevelsSet.
PairGreen80 == <<"8", "0", "=", "#", "0", "f", "0">>

PairYellow70 == <<"7", "0", "=", "#", "f", "f", "f", "f", "0", "0">>

PairDefault == <<"=", "#", "f", "0", "0">>

PairSpaced80 == <<" ", "8", "0", " ", "=", " ", "#", "0", "0", "f", "f", "0", "0", " ">>

PairDecimal == <<"8", "5", ".", "5", "=", "#", "0", "f", "0">>

SegBlank == <<" ">>

SegEmpty == <<>>

PairNoEquals == <<"8", "0", "#", "0", "f", "0">>

PairBadNumber == <<"a", "b", "=", "#", "0", "f", "0">>

PairNoHash == <<"8", "0", "=", "0", "f", "0">>

PairShortColor == <<"8", "0", "=", "#", "0", "0", "f", "f">>

PairNonHex == <<"8", "0", "=", "#", "0", "g", "0">>

PairTwoEquals == <<"8", "0", "=", "#", "0", "f", "0", "=", "x">>

PairBadBoth == <<"a", "b", "=", "0", "f", "0">>

SegPool ==
    {PairGreen80, PairYellow70, PairDefault, PairSpaced80,
     PairDecimal, SegBlank, SegEmpty, PairNoEquals,
     PairBadNumber, PairNoHash, PairShortColor, PairNonHex,
     PairTwoEquals, PairBadBoth}

\* The texts handed to Set: up to MaxSegs segments joined by commas.
Texts ==
    {Join(segs, ",") : segs \in UNION {[1..n -> SegPool] : n \in 0..MaxSegs}}

\* Colors of tables built in memory.
Green == <<"#", "0", "0", "f", "f", "0", "0">>

Yellow == <<"#", "f", "f", "f", "f", "0", "0">>

Red == <<"#", "f", "f", "0", "0", "0", "0">>

Green3 == <<"#", "0", "f", "0">>

Blue3 == <<"#", "0", "0", "f">>

NotAColor == <<"#", "y", "e", "l", "l", "o", "w">>

\* A table literal: the map with the given thresholds (hundredths) and colors.
Table(pairs) ==
    MkLevels([k \in {p[1] : p \in pairs} |-> (CHOOSE p \in pairs : p[1] = k)[2]])

EmptyLevels == MkLevels(<<>>)

\* Tables built in memory, after the cases of TestLevelsGetColorForCoverage
\* and TestConfigMerge.
LevelsPool ==
    {NilLevels, EmptyLevels,
     Table({<<9000, Green>>, <<7000, Yellow>>, <<0, Red>>}),
     Table({<<9000, Green>>, <<7000, Yellow>>}),
     Table({<<8500, Green>>, <<7050, Yellow>>}),
     Table({<<8000, Green3>>}),
     Table({<<5000, NotAColor>>})}

\* Coverage values (hundredths) around the thresholds of the pools.
Coverages ==
    {0 - 100, 0, 500, 6999, 7000, 7049, 7050, 7500, 8000, 8549, 8550, 9000, 9500, 10000}

(* ----------------------- inputs of the configuration ------------------- *)

\* Largest number of flags on a command line.
MaxArgs == 2

Member(k, v) == [k |-> k, v |-> v]

\* Levels texts of documents and flags.
BaselineLevelsText == Join(<<PairYellow70, PairDefault>>, ",")

CoverageText == <<"8", "5", ".", "5">>

BadCoverageText == <<"a", "b">>

\* Embedded baselines (a.defaultConfig): a full one, a partial one with a
\* true boolean, and one that is not JSON.
BaselineFull ==
    JSONObject(<<Member("testCommand", StrVal("A")), Member("outputFile", StrVal("x.svg")),
                 Member("levels", TextVal(BaselineLevelsText))>>)

BaselineQuiet ==
    JSONObject(<<Member("testCommand", StrVal("A")), Member("quiet", BoolVal(TRUE)),
                 Member("CoveragePC", TextVal(<<"9", "0">>))>>)

Baselines == {BaselineFull, BaselineQuiet, InvalidJSON}

\* External configuration documents.
DocCmd == JSONObject(<<Member("testCommand", StrVal("B"))>>)

DocLevels == JSONObject(<<Member("levels", TextVal(PairGreen80))>>)

DocFull ==
    JSONObject(<<Member("testCommand", StrVal("B")), Member("outputFile", StrVal("d.svg")),
                 Member("template", StrVal("t.tmpl")), Member("levels", TextVal(PairDecimal)),
                 Member("quiet", BoolVal(FALSE)), Member("autoClean", BoolVal(TRUE)),
                 Member("comment", StrVal("ignored"))>>)

DocBadLevels ==
    JSONObject(<<Member("testCommand", StrVal("B")), Member("levels", TextVal(PairNoEquals)),
                 Member("outputFile", StrVal("d.svg"))>>)

\* A document that names the fields tagged json:"-".
DocCoverage ==
    JSONObject(<<Member("CoveragePC", TextVal(<<"9", "0">>)),
                 Member("coveragePC", TextVal(<<"9", "0">>)),
                 Member("ConfigFile", StrVal("other.json")),
                 Member("outputFile", StrVal("d.svg"))>>)

Paths == {"stampli.json", "custom.json"}

\* The file system: what os.ReadFile finds at each path.
FileSystems ==
    {[p \in Paths |-> IF p = "stampli.json" THEN d ELSE e] :
        d \in {NoFile, FileOf(DocCmd), FileOf(DocLevels), FileOf(InvalidJSON)},
        e \in {NoFile, FileOf(InvalidJSON), FileOf(DocFull), FileOf(DocBadLevels),
               FileOf(DocCmd), FileOf(DocCoverage)}}

Flag(f, v) == [f |-> f, v |-> v]

\* One command-line flag with its value.
ArgPool ==
    {Flag("command", StrVal("C")), Flag("output", StrVal("f.svg")),
     Flag("config", StrVal("custom.json")), Flag("config", StrVal("stampli.json")),
     Flag("config", StrVal("")), Flag("levels", TextVal(PairDecimal)),
     Flag("levels", TextVal(PairNoEquals)), Flag("levels", TextVal(PairBadBoth)),
     Flag("levels", TextVal(Join(<<PairGreen80, PairNonHex>>, ","))),
     Flag("quiet", BoolVal(FALSE)),
     Flag("auto-clean", BoolVal(TRUE)), Flag("coverage", TextVal(CoverageText)),
     Flag("coverage", TextVal(BadCoverageText))}

ArgLists == UNION {[1..n -> ArgPool] : n \in 0..MaxArgs}

\* Receivers and arguments of direct merge calls, after TestConfigMerge.
BaseConfigs ==
    {[ZeroConfig EXCEPT !.TestCommand = "A", !.OutputFile = "x.svg",
                        !.Template = "t0", !.DumpTemplate = q, !.DumpConfig = q,
                        !.Quiet = q, !.AutoClean = q, !.Levels = lv,
                        !.CoveragePC = cp] :
        q \in BOOLEAN,
        lv \in {NilLevels, EmptyLevels, Table({<<9000, Green>>}),
                Table({<<5000, NotAColor>>})},
        cp \in {NilPtr, PtrTo(9000)}}

OtherLevels ==
    {NilLevels, EmptyLevels,
     Table({<<7000, Yellow>>, <<0, Red>>}),
     Table({<<8550, Green3>>, <<7230, Yellow>>}),
     Table({<<8550, Green3>>, <<8600, Blue3>>}),
     Table({<<8600, Blue3>>, <<8640, Green>>}),
     Table({<<5000, NotAColor>>}),
     Table({<<5000, NotAColor>>, <<9000, Green>>})}

OtherConfigs ==
    {[ZeroConfig EXCEPT !.TestCommand = cmd, !.OutputFile = out,
                        !.Template = tpl, !.DumpTemplate = b1, !.Quiet = b1,
                        !.DumpConfig = b2, !.AutoClean = b2, !.Levels = lv,
                        !.CoveragePC = cp] :
        cmd \in {"", "B"}, out \in {"", "y.svg"}, tpl \in {"", "t.tmpl"},
        b1 \in BOOLEAN, b2 \in BOOLEAN, lv \in OtherLevels,
        cp \in {NilPtr, PtrTo(7520), PtrTo(8550)}}

(* ------------------------------ state machine -------------------------- *)

NoRet == [op |-> "none"]

LoadRet ==
    [op |-> "loadConfig", err |-> errNone, cause |-> errNone, msg |-> <<>>,
     path |-> "", pre |-> ZeroConfig]

\* The zero value of type app with the fields newApp sets.
ZeroApp ==
    [config |-> ZeroConfig, defaultConfig |-> InvalidJSON,
     defaultConfigFile |-> defaultConfigFile]

NoFiles == [p \in Paths |-> NoFile]

\* A table built in memory, then Set and GetColorForCoverage called on it.
Init ==
    /\ l \in LevelsPool
    /\ ret = NoRet
    /\ pc = "levels"
    /\ c = ZeroConfig /\ other = ZeroConfig /\ a = ZeroApp /\ files = NoFiles
    /\ args = <<>> /\ cfg2 = ZeroConfig /\ coverageFlag = NilPtr

\* l.Set(value)
DoSet ==
    /\ ret.op = "none"
    /\ \E value \in Texts : \E r \in {LevelsSet(value)} :
         /\ l' = r.l
         /\ ret' = [op |-> "Set", value |-> value, err |-> r.err, msg |-> r.msg,
                    pre |-> l]
    /\ UNCHANGED <<c, other, a, files, args, cfg2, coverageFlag, pc>>

\* l.GetColorForCoverage(coverage)
DoGetColorForCoverage ==
    /\ ret.op \in {"none", "Set"}
    /\ \E coverage \in Coverages :
         ret' = [op |-> "GetColorForCoverage", coverage |-> coverage,
                 color |-> GetColorForCoverage(l, coverage)]
    /\ UNCHANGED <<l, c, other, a, files, args, cfg2, coverageFlag, pc>>

Next == DoSet \/ DoGetColorForCoverage

Spec == Init /\ [][Next]_vars

\* A direct call c.merge(other).
InitMerge ==
    /\ c \in BaseConfigs
    /\ other \in OtherConfigs
    /\ ret = NoRet
    /\ pc = "merge"
    /\ l = NilLevels /\ a = ZeroApp /\ files = NoFiles
    /\ args = <<>> /\ cfg2 = ZeroConfig /\ coverageFlag = NilPtr

DoMerge ==
    /\ ret.op = "none"
    /\ \E r \in {merge(c, other)} :
         /\ c' = r.c
         /\ ret' = [op |-> "merge", err |-> r.err, cause |-> r.cause,
                    msg |-> r.msg, pre |-> c]
    /\ UNCHANGED <<l, other, a, files, args, cfg2, coverageFlag, pc>>

NextMerge == DoMerge

SpecMerge == InitMerge /\ [][NextMerge]_vars

\* newApp: a zero app with the embedded baseline, then loadConfig(fs, args).
InitLoad ==
    /\ \E d \in Baselines : a = [ZeroApp EXCEPT !.defaultConfig = d]
    /\ files \in FileSystems
    /\ args \in ArgLists
    /\ cfg2 = ZeroConfig
    /\ coverageFlag = NilPtr
    /\ pc = "defaults"
    /\ ret = LoadRet
    /\ l = NilLevels /\ c = ZeroConfig /\ other = ZeroConfig

\* loadConfig, lines 110-115: the embedded defaults.
LoadDefaults ==
    /\ pc = "defaults"
    /\ \E r \in {Unmarshal(a.defaultConfig, a.config)} :
         /\ a' = [a EXCEPT !.config = r.cfg]
         /\ ret' = IF r.err = errNone THEN [ret EXCEPT !.pre = a.config]
                   ELSE [ret EXCEPT !.err = "failed to load embedded defaults",
                                    !.cause = r.err, !.msg = r.msg,
                                    !.pre = a.config]
         /\ pc' = IF r.err = errNone THEN "flags" ELSE "done"
    /\ UNCHANGED <<l, c, other, files, args, cfg2, coverageFlag>>

\* The flag set before fs.Parse: the defaults, and -config bound to
\* cfg.ConfigFile with the default path.
FlagState(cfg, defaultFile) ==
    [cfg2 |-> FlagDefaults(cfg), ConfigFile |-> defaultFile, cov |-> NilPtr,
     err |-> errNone, cause |-> errNone, msg |-> <<>>]

\* loadConfig, lines 117-152: the flags are defined and parsed.
ParseFlags ==
    /\ pc = "flags"
    /\ \E st \in {ParseArgs(FlagState(a.config, a.defaultConfigFile), args)} :
         /\ a' = [a EXCEPT !.config.ConfigFile = st.ConfigFile]
         /\ coverageFlag' = st.cov
         /\ cfg2' = IF st.err = errNone /\ st.cov.set
                    THEN [st.cfg2 EXCEPT !.CoveragePC = st.cov]
                    ELSE st.cfg2
         /\ ret' = [ret EXCEPT !.err = st.err, !.cause = st.cause,
                               !.msg = st.msg, !.pre = a.config]
         /\ pc' = IF st.err = errNone THEN "file" ELSE "done"
    /\ UNCHANGED <<l, c, other, files, args>>

Loaded(cfg, err, cause, msg) == [cfg |-> cfg, err |-> err, cause |-> cause, msg |-> msg]

\* A loader that goes on after a document that does not parse.
ReadDecodedLenient(r) == Loaded(r.cfg, errNone, errNone, <<>>)

\* Lines 156-158: the document that was read is decoded into cfg.
ReadDecoded(r) ==
    IF r.err = errNone THEN Loaded(r.cfg, errNone, errNone, <<>>)
    ELSE Loaded(r.cfg, "failed to parse config file", r.err, r.msg)

\* A loader that never insists on the file.
ReadConfigLenient(cfg, defaultFile, fsys) ==
    IF cfg.ConfigFile = "" THEN Loaded(cfg, errNone, errNone, <<>>)
    ELSE IF fsys[cfg.ConfigFile].exists
    THEN ReadDecoded(Unmarshal(fsys[cfg.ConfigFile].doc, cfg))
    ELSE Loaded(cfg, errNone, errNone, <<>>)

\* What lines 154-163 do with the configuration: the outcome of reading and
\* applying the external document.
ReadConfig(cfg, defaultFile, fsys) ==
    IF cfg.ConfigFile = "" THEN Loaded(cfg, errNone, errNone, <<>>)
    ELSE IF fsys[cfg.ConfigFile].exists
    THEN ReadDecoded(Unmarshal(fsys[cfg.ConfigFile].doc, cfg))
    ELSE IF cfg.ConfigFile # defaultFile
    THEN Loaded(cfg, "failed to load config file", "ReadFile", <<>>)
    ELSE Loaded(cfg, errNone, errNone, <<>>)

\* loadConfig, lines 154-163: the external document.
ReadConfigFile ==
    /\ pc = "file"
    /\ \E r \in {ReadConfig(a.config, a.defaultConfigFile, files)} :
         /\ a' = [a EXCEPT !.config = r.cfg]
         /\ ret' = [ret EXCEPT !.err = r.err, !.cause = r.cause, !.msg = r.msg,
                               !.path = IF r.err = errNone THEN ""
                                        ELSE a.config.ConfigFile,
                               !.pre = a.config]
         /\ pc' = IF r.err = errNone THEN "merge" ELSE "done"
    /\ UNCHANGED <<l, c, other, files, args, cfg2, coverageFlag>>

\* loadConfig, line 165: the overrides are merged last.
MergeOverrides ==
    /\ pc = "merge"
    /\ \E r \in {merge(a.config, cfg2)} :
         /\ a' = [a EXCEPT !.config = r.c]
         /\ ret' = [ret EXCEPT !.err = r.err, !.cause = r.cause, !.msg = r.msg,
                               !.pre = a.config]
         /\ pc' = "done"
    /\ UNCHANGED <<l, c, other, files, args, cfg2, coverageFlag>>

NextLoad == LoadDefaults \/ ParseFlags \/ ReadConfigFile \/ MergeOverrides

SpecLoad == InitLoad /\ [][NextLoad]_vars

(* --------------------------- util.go: text color ----------------------- *)

\* The value of a hexadecimal digit, either case.
HexDigitVal(ch) ==
    IF IsDigit(ch) THEN DigitVal(ch)
    ELSE CASE ch \in {"a", "A"} -> 10
           [] ch \in {"b", "B"} -> 11
           [] ch \in {"c", "C"} -> 12
           [] ch \in {"d", "D"} -> 13
           [] ch \in {"e", "E"} -> 14
           [] ch \in {"f", "F"} -> 15

RECURSIVE HexDigitsVal(_)
HexDigitsVal(s) ==
    IF s = <<>> THEN 0
    ELSE 16 * HexDigitsVal(SubSeq(s, 1, Len(s) - 1)) + HexDigitVal(s[Len(s)])

AllHexDigits(s) == s # <<>> /\ \A i \in 1..Len(s) : IsHexDigit(s[i])

\* strconv.ParseInt(s, 16, 0) with the error dropped: an optional sign, then
\* hexadecimal digits; 0 when s is not of that form.
ParseInt16(s) ==
    IF s # <<>> /\ Head(s) = "-"
    THEN (IF AllHexDigits(Tail(s)) THEN 0 - HexDigitsVal(Tail(s)) ELSE 0)
    ELSE IF s # <<>> /\ Head(s) = "+"
    THEN (IF AllHexDigits(Tail(s)) THEN HexDigitsVal(Tail(s)) ELSE 0)
    ELSE IF AllHexDigits(s) THEN HexDigitsVal(s) ELSE 0

\* strings.TrimPrefix(hexColor, "#")
TrimPrefixHash(s) == IF s # <<>> /\ Head(s) = "#" THEN Tail(s) ELSE s

\* Lines 17-19: a 3-digit color is expanded to 6 digits.
Expand3(s) ==
    IF Len(s) = 3 THEN <<s[1], s[1], s[2], s[2], s[3], s[3]>> ELSE s

\* A luminance component is held as LinearHi * LuminanceBase + LinearLo, in
\* units of 10^-10.
LuminanceBase == 100000

\* luminanceComponent(v / 255.0) for v = 0..255, high and low part.
LinearHi ==
    <<0, 30, 60, 91, 121, 151, 182, 212,
      242, 273, 303, 334, 367, 402, 439, 477,
      518, 560, 604, 651, 699, 749, 802, 856,
      913, 972, 1032, 1096, 1161, 1228, 1298, 1370,
      1444, 1520, 1599, 1680, 1764, 1850, 1938, 2028,
      2121, 2217, 2315, 2415, 2518, 2624, 2732, 2842,
      2955, 3071, 3189, 3310, 3433, 3560, 3688, 3820,
      3954, 4091, 4231, 4373, 4518, 4666, 4817, 4970,
      5126, 5286, 5448, 5612, 5780, 5951, 6124, 6301,
      6480, 6662, 6847, 7036, 7227, 7421, 7618, 7818,
      8021, 8228, 8437, 8650, 8865, 9084, 9305, 9530,
      9758, 9989, 10224, 10461, 10702, 10946, 11193, 11443,
      11697, 11953, 12213, 12477, 12743, 13013, 13286, 13563,
      13843, 14126, 14412, 14702, 14995, 15292, 15592, 15896,
      16202, 16513, 16826, 17144, 17464, 17788, 18116, 18447,
      18782, 19120, 19461, 19806, 20155, 20507, 20863, 21223,
      21586, 21952, 22322, 22696, 23074, 23455, 23839, 24228,
      24620, 25015, 25415, 25818, 26225, 26635, 27049, 27467,
      27889, 28314, 28744, 29177, 29613, 30054, 30498, 30946,
      31398, 31854, 32314, 32777, 33245, 33716, 34191, 34670,
      35153, 35640, 36130, 36625, 37123, 37626, 38132, 38642,
      39157, 39675, 40197, 40724, 41254, 41788, 42326, 42869,
      43415, 43965, 44520, 45078, 45641, 46207, 46778, 47353,
      47932, 48514, 49102, 49693, 50288, 50888, 51491, 52099,
      52711, 53327, 53947, 54572, 55201, 55834, 56471, 57112,
      57758, 58407, 59061, 59720, 60382, 61049, 61720, 62396,
      63075, 63759, 64447, 65140, 65837, 66538, 67244, 67954,
      68668, 69387, 70110, 70837, 71569, 72305, 73046, 73791,
      74540, 75294, 76052, 76815, 77582, 78353, 79129, 79910,
      80695, 81484, 82278, 83076, 83879, 84687, 85499, 86315,
      87136, 87962, 88792, 89626, 90466, 91309, 92158, 93011,
      93868, 94730, 95597, 96468, 97344, 98225, 99110, 100000>>

LinearLo ==
    <<0, 35270, 70540, 5810, 41079, 76349, 11619, 46889,
      82159, 17429, 52698, 65358, 65073, 47170, 14420, 69535,
      15167, 53916, 88330, 20908, 54102, 90320, 31930, 81256,
      40587, 12173, 98230, 940, 22452, 64884, 30323, 20830,
      38436, 85144, 62934, 73758, 19545, 2201, 23610, 85631,
      90104, 38848, 33662, 76324, 68596, 12219, 8916, 60395,
      68344, 34437, 60331, 47666, 98068, 13149, 94504, 43716,
      62353, 51969, 14106, 50293, 62044, 50863, 18242, 65660,
      94584, 6470, 2764, 84900, 54302, 12382, 60542, 177,
      32667, 59386, 81698, 957, 18507, 35684, 53815, 74218,
      98203, 27071, 62115, 4620, 55863, 17112, 89628, 74666,
      73471, 87282, 17331, 64841, 31030, 17108, 24278, 53738,
      6678, 84280, 87722, 18176, 76804, 64767, 83216, 33297,
      16150, 32911, 84709, 72665, 97898, 61520, 64637, 8351,
      93756, 21945, 94002, 11007, 74037, 84160, 42442, 49945,
      7723, 16827, 78304, 93196, 62538, 87364, 68701, 7574,
      5001, 61997, 79573, 58735, 485, 5822, 75738, 11225,
      13267, 82847, 20943, 28529, 6575, 56048, 77910, 73121,
      42635, 87404, 8377, 6498, 82708, 37944, 73141, 89228,
      87134, 67781, 32091, 80981, 15363, 36150, 44249, 40564,
      25995, 1441, 67798, 25956, 76805, 21230, 60114, 94338,
      24777, 52307, 77798, 2119, 26135, 50708, 76700, 4966,
      36362, 71738, 11945, 57828, 10232, 69997, 37961, 14961,
      1831, 99401, 8498, 29951, 64580, 13209, 76654, 55732,
      51257, 64040, 94890, 44614, 14015, 3896, 15057, 48295,
      4404, 84179, 88409, 17884, 73389, 55708, 65624, 3917,
      71363, 68740, 96820, 56374, 48173, 72983, 31570, 24696,
      53124, 17613, 18919, 57799, 35005, 51289, 7401, 4088,
      42095, 22168, 45047, 11472, 22183, 77915, 79403, 27380,
      22577, 65722, 57544, 98768, 90117, 32315, 26081, 72135,
      71192, 23969, 31179, 93534, 11744, 86518, 18563, 8584,
      57285, 65367, 33532, 62479, 52904, 5503, 20971, 0>>

NegLinearHi ==
    <<-31, -61, -92, -122, -152, -183, -213, -243,
      -274, -304, -334, -365, -395, -425, -456>>

NegLinearLo ==
    <<64730, 29460, 94190, 58921, 23651, 88381, 53111, 17841,
      82571, 47302, 12032, 76762, 41492, 6222, 70952>>

\* luminanceComponent(float64(v) / 255.0), high part; v is negative for a
\* channel text such as "-f".
LinearHiOf(v) == IF v >= 0 THEN LinearHi[v + 1] ELSE NegLinearHi[0 - v]

LinearLoOf(v) == IF v >= 0 THEN LinearLo[v + 1] ELSE NegLinearLo[0 - v]

\* 0.2126*rLum + 0.7152*gLum + 0.0722*bLum, in units of 10^-14.
WeightedHi(r, g, b) == 2126 * LinearHiOf(r) + 7152 * LinearHiOf(g) + 722 * LinearHiOf(b)

WeightedLo(r, g, b) == 2126 * LinearLoOf(r) + 7152 * LinearLoOf(g) + 722 * LinearLoOf(b)

\* luminance > 0.5
AboveHalf(hi, lo) ==
    \/ hi + (lo \div LuminanceBase) > 5000 * LuminanceBase
    \/ /\ hi + (lo \div LuminanceBase) = 5000 * LuminanceBase
       /\ lo % LuminanceBase > 0

Black == <<"#", "0", "0", "0", "0", "0", "0">>

White == <<"#", "f", "f", "f", "f", "f", "f">>

\* A call that ends in a run-time panic (slice bounds out of range).
Panicked == [panic |-> TRUE, color |-> <<>>]

Returned(color) == [panic |-> FALSE, color |-> color]

\* A comparison that also sends a luminance of exactly the bound, or one just
\* under it, to black text.
TextColorRGBLowBound(r, g, b) ==
    IF AboveHalf(WeightedHi(r, g, b) + 3000 * LuminanceBase, WeightedLo(r, g, b))
    THEN Returned(Black) ELSE Returned(White)

\* Lines 28-38.
TextColorRGB(r, g, b) ==
    IF AboveHalf(WeightedHi(r, g, b), WeightedLo(r, g, b))
    THEN Returned(Black) ELSE Returned(White)

\* Lines 22-24: hexColor[0:2], [2:4] and [4:6] panic on a text shorter than
\* 6 bytes.
TextColorOf(h) ==
    IF Len(h) < 6 THEN Panicked
    ELSE TextColorRGB(ParseInt16(SubSeq(h, 1, 2)),
                      ParseInt16(SubSeq(h, 3, 4)),
                      ParseInt16(SubSeq(h, 5, 6)))

\* A variant that repeats a 3-digit text instead of doubling its digits.
getOptimalTextColorRepeat(hexColor) ==
    TextColorOf(IF Len(TrimPrefixHash(hexColor)) = 3
                THEN TrimPrefixHash(hexColor) \o TrimPrefixHash(hexColor)
                ELSE TrimPrefixHash(hexColor))

getOptimalTextColor(hexColor) == TextColorOf(Expand3(TrimPrefixHash(hexColor)))

(* ------------------------- inputs of the color functions --------------- *)

\* The inputs of TestIsValidHexColor.
ValidationTokens ==
    {<<"#", "f", "f", "0", "0", "0", "0">>,
     <<"#", "F", "F", "0", "0", "0", "0">>,
     <<"#", "F", "f", "0", "0", "0", "0">>,
     <<"#", "1", "2", "3", "4", "5", "6">>,
     <<"#", "f", "0", "0">>,
     <<"#", "F", "0", "0">>,
     <<"#", "F", "0", "a">>,
     <<"#", "1", "2", "3">>,
     <<"f", "f", "0", "0", "0", "0">>,
     <<"f", "0", "0">>,
     <<"#", "f", "0">>,
     <<"#", "f", "f", "0", "0", "0", "0", "0">>,
     <<"#", "f", "f", "0", "0", "0", "0", "0", "0", "0">>,
     <<"#", "f", "0", "0", "0">>,
     <<"#", "f", "0", "0", "0", "0">>,
     <<"#", "f", "g", "0", "0", "0", "0">>,
     <<"#", "f", "f", "0", "0", "0", "z">>,
     <<"#", "f", "f", " ", "0", "0", "0">>,
     <<"#", "f", "f", "@", "0", "0", "0">>,
     <<"#">>,
     <<>>,
     <<"#", "0", "0", "0", "0", "0", "0">>,
     <<"#", "0", "0", "0">>,
     <<"#", "f", "f", "f", "f", "f", "f">>,
     <<"#", "f", "f", "f">>}

\* The inputs of TestGetOptimalTextColor, the two colors nearest to the
\* luminance bound, and malformed texts.
TextColorTokens ==
    {<<"#", "c", "c", "c", "c", "c", "c">>,
     <<"#", "f", "f", "f", "f", "0", "0">>,
     <<"#", "8", "7", "c", "e", "e", "b">>,
     <<"#", "3", "3", "3", "3", "3", "3">>,
     <<"#", "0", "0", "0", "0", "8", "0">>,
     <<"#", "f", "f", "0", "0", "0", "1">>,
     <<"#", "0", "f", "0">>,
     <<"f", "f", "f", "f", "f", "f">>,
     <<"0", "0", "0", "0", "0", "0">>,
     <<"#", "8", "0", "8", "0", "8", "0">>,
     <<"#", "a", "0", "a", "0", "a", "0">>,
     <<"#", "5", "a", "c", "b", "d", "b">>,
     <<"#", "5", "a", "d", "3", "7", "3">>,
     <<"#", "a", "b">>,
     <<"#", "-", "f", "-", "f", "-", "f">>,
     <<"#", "+", "f", "+", "f", "+", "f">>,
     <<"#", "#", "f", "f", "f">>,
     <<"#", "F", "F", "F", "F", "F", "F">>,
     <<"#", "A", "b", "C">>,
     <<"#", "a", "a", "b", "b", "c", "c">>,
     <<"A", "b", "C">>}

\* Longest generated token.
MaxTokenLen == 7

TokenAlphabet == {"#", "0", "f", "g"}

\* Every text of up to MaxTokenLen characters over the alphabet.
GeneratedTokens == UNION {[1..n -> TokenAlphabet] : n \in 0..MaxTokenLen}

Tokens == ValidationTokens \cup TextColorTokens \cup GeneratedTokens

\* Tables built in memory for String and the JSON round trip.
TablePool ==
    LevelsPool \cup OtherLevels
        \cup {Table({<<8570, Green>>, <<7230, Yellow>>, <<1000, Red>>})}

(* ---------------------- levels.go: JSON and the badge ------------------- *)

\* Levels.MarshalJSON: the text of String as one JSON string.
LevelsMarshalJSON(lv) == TextVal(LevelsString(lv))

\* Levels.UnmarshalJSON of a JSON string.
LevelsUnmarshalJSON(data) == LevelsSet(data.t)

\* The table a fresh Levels holds once json.Marshal(lv) has been unmarshalled
\* into it, and the error.
JSONRoundTrip(lv) == LevelsUnmarshalJSON(LevelsMarshalJSON(lv))

\* The two colors generateBadge hands to the template.
BadgeColors(color) == [color |-> color, textColor |-> getOptimalTextColor(color)]

(* ----------------------- state machine: the table ---------------------- *)

InitTable ==
    /\ l \in TablePool
    /\ ret = NoRet
    /\ pc = "levels"
    /\ c = ZeroConfig /\ other = ZeroConfig /\ a = ZeroApp /\ files = NoFiles
    /\ args = <<>> /\ cfg2 = ZeroConfig /\ coverageFlag = NilPtr

\* l.String() and l.MarshalJSON()
DoString ==
    /\ ret.op \in {"none", "Set"}
    /\ ret' = [op |-> "String", text |-> LevelsString(l),
               json |-> LevelsMarshalJSON(l)]
    /\ UNCHANGED <<l, c, other, a, files, args, cfg2, coverageFlag, pc>>

\* json.Marshal(l) unmarshalled into a fresh table, l itself untouched.
DoRoundTrip ==
    /\ ret.op \in {"none", "Set"}
    /\ \E r \in {JSONRoundTrip(l)} :
         ret' = [op |-> "RoundTrip", l |-> r.l, err |-> r.err]
    /\ UNCHANGED <<l, c, other, a, files, args, cfg2, coverageFlag, pc>>

\* generateBadge, lines 284-285; parsed records that the table is the
\* result of a successful Set.
DoBadgeColors ==
    /\ ret.op \in {"none", "Set"}
    /\ \E coverage \in Coverages :
         \E r \in {BadgeColors(GetColorForCoverage(l, coverage))} :
            ret' = [op |-> "generateBadge", coverage |-> coverage,
                    color |-> r.color, textColor |-> r.textColor,
                    parsed |-> (ret.op = "Set" /\ ret.err = errNone)]
    /\ UNCHANGED <<l, c, other, a, files, args, cfg2, coverageFlag, pc>>

NextTable == DoSet \/ DoString \/ DoRoundTrip \/ DoBadgeColors

SpecTable == InitTable /\ [][NextTable]_vars

(* ----------------------- state machine: the colors --------------------- *)

InitColor ==
    /\ ret = NoRet
    /\ pc = "color"
    /\ l = NilLevels
    /\ c = ZeroConfig /\ other = ZeroConfig /\ a = ZeroApp /\ files = NoFiles
    /\ args = <<>> /\ cfg2 = ZeroConfig /\ coverageFlag = NilPtr

\* isValidHexColor(color)
DoIsValidHexColor ==
    /\ ret.op = "none"
    /\ \E color \in Tokens :
         ret' = [op |-> "isValidHexColor", color |-> color,
                 valid |-> isValidHexColor(color)]
    /\ UNCHANGED <<l, c, other, a, files, args, cfg2, coverageFlag, pc>>

\* getOptimalTextColor(hexColor)
DoGetOptimalTextColor ==
    /\ ret.op = "none"
    /\ \E hexColor \in Tokens :
         ret' = [op |-> "getOptimalTextColor", hexColor |-> hexColor,
                 result |-> getOptimalTextColor(hexColor)]
    /\ UNCHANGED <<l, c, other, a, files, args, cfg2, coverageFlag, pc>>

NextColor == DoIsValidHexColor \/ DoGetOptimalTextColor

SpecColor == InitColor /\ [][NextColor]_vars

(* ------------------ main.go: run, coverage and the badge --------------- *)

\* s holds sub from position i on.
HasPrefixAt(s, i, sub) ==
    /\ i + Len(sub) - 1 <= Len(s)
    /\ SubSeq(s, i, i + Len(sub) - 1) = sub

\* strings.HasPrefix
HasPrefix(s, prefix) == HasPrefixAt(s, 1, prefix)

\* strings.Index: the position of the first occurrence of sub, 0 for none.
IndexOfText(s, sub) ==
    IF \E i \in 1..(Len(s) + 1) : HasPrefixAt(s, i, sub)
    THEN SetMin({i \in 1..(Len(s) + 1) : HasPrefixAt(s, i, sub)})
    ELSE 0

\* strings.Contains
Contains(s, sub) == IndexOfText(s, sub) # 0

\* strings.TrimSuffix
TrimSuffix(s, suffix) ==
    IF Len(s) >= Len(suffix) /\ HasPrefixAt(s, Len(s) - Len(suffix) + 1,
        suffix)
    THEN SubSeq(s, 1, Len(s) - Len(suffix))
    ELSE s

\* The length of the run of non-space characters s starts with.
RunLen(s) ==
    IF \E i \in 1..Len(s) : IsSpace(s[i])
    THEN SetMin({i \in 1..Len(s) : IsSpace(s[i])}) - 1
    ELSE Len(s)

RECURSIVE Fields(_)

FieldsSplit(t, n) == <<SubSeq(t, 1, n)>> \o Fields(SubSeq(t, n + 1, Len(t)))

FieldsFrom(t) == IF t = <<>> THEN <<>> ELSE FieldsSplit(t, RunLen(t))

\* strings.Fields: the words of s, split around runs of white space.
Fields(s) == FieldsFrom(TrimLeft(s))

\* Magnitudes x.x5 (hundredths, up to 100.00) whose float64 is larger than
\* the decimal, so that "%.1f" rounds them up; x.25 and x.75 are exact in
\* binary and round to even, every other x.x5 has a float64 below it.
HalfAbove ==
    {
     5, 45, 55, 65, 105, 135, 155, 185, 235, 245, 285, 295,
     335, 345, 385, 395, 415, 445, 465, 495, 515, 545, 565, 595,
     615, 645, 665, 695, 715, 745, 765, 795, 805, 815, 855, 865,
     905, 915, 955, 965, 1005, 1015, 1055, 1065, 1105, 1115, 1155, 1165,
     1205, 1215, 1255, 1265, 1305, 1315, 1355, 1365, 1405, 1415, 1455, 1465,
     1505, 1515, 1555, 1565, 1605, 1635, 1655, 1685, 1705, 1735, 1755, 1785,
     1805, 1835, 1855, 1885, 1905, 1935, 1955, 1985, 2005, 2035, 2055, 2085,
     2105, 2135, 2155, 2185, 2205, 2235, 2255, 2285, 2305, 2335, 2355, 2385,
     2405, 2435, 2455, 2485, 2505, 2535, 2555, 2585, 2605, 2635, 2655, 2685,
     2705, 2735, 2755, 2785, 2805, 2835, 2855, 2885, 2905, 2935, 2955, 2985,
     3005, 3035, 3055, 3085, 3105, 3135, 3155, 3185, 3235, 3245, 3285, 3295,
     3335, 3345, 3385, 3395, 3435, 3445, 3485, 3495, 3535, 3545, 3585, 3595,
     3635, 3645, 3685, 3695, 3735, 3745, 3785, 3795, 3835, 3845, 3885, 3895,
     3935, 3945, 3985, 3995, 4035, 4045, 4085, 4095, 4135, 4145, 4185, 4195,
     4235, 4245, 4285, 4295, 4335, 4345, 4385, 4395, 4435, 4445, 4485, 4495,
     4535, 4545, 4585, 4595, 4635, 4645, 4685, 4695, 4735, 4745, 4785, 4795,
     4835, 4845, 4885, 4895, 4935, 4945, 4985, 4995, 5035, 5045, 5085, 5095,
     5135, 5145, 5185, 5195, 5235, 5245, 5285, 5295, 5335, 5345, 5385, 5395,
     5435, 5445, 5485, 5495, 5535, 5545, 5585, 5595, 5635, 5645, 5685, 5695,
     5735, 5745, 5785, 5795, 5835, 5845, 5885, 5895, 5935, 5945, 5985, 5995,
     6035, 6045, 6085, 6095, 6135, 6145, 6185, 6195, 6235, 6245, 6285, 6295,
     6335, 6345, 6385, 6395, 6415, 6445, 6465, 6495, 6515, 6545, 6565, 6595,
     6615, 6645, 6665, 6695, 6715, 6745, 6765, 6795, 6815, 6845, 6865, 6895,
     6915, 6945, 6965, 6995, 7015, 7045, 7065, 7095, 7115, 7145, 7165, 7195,
     7215, 7245, 7265, 7295, 7315, 7345, 7365, 7395, 7415, 7445, 7465, 7495,
     7515, 7545, 7565, 7595, 7615, 7645, 7665, 7695, 7715, 7745, 7765, 7795,
     7815, 7845, 7865, 7895, 7915, 7945, 7965, 7995, 8015, 8045, 8065, 8095,
     8115, 8145, 8165, 8195, 8215, 8245, 8265, 8295, 8315, 8345, 8365, 8395,
     8415, 8445, 8465, 8495, 8515, 8545, 8565, 8595, 8615, 8645, 8665, 8695,
     8715, 8745, 8765, 8795, 8815, 8845, 8865, 8895, 8915, 8945, 8965, 8995,
     9015, 9045, 9065, 9095, 9115, 9145, 9165, 9195, 9215, 9245, 9265, 9295,
     9315, 9345, 9365, 9395, 9415, 9445, 9465, 9495, 9515, 9545, 9565, 9595,
     9615, 9645, 9665, 9695, 9715, 9745, 9765, 9795, 9815, 9845, 9865, 9895,
     9915, 9945, 9965, 9995}

\* Magnitude x (hundredths) in tenths, rounded as strconv rounds the
\* float64 nearest to x/100.
RoundTenth(x) ==
    LET q == x \div 10
        r == x % 10
    IN  IF r < 5 THEN q
        ELSE IF r > 5 THEN q + 1
        ELSE IF x % 25 = 0 THEN (IF q % 2 = 0 THEN q ELSE q + 1)
        ELSE IF x \in HalfAbove THEN q + 1 ELSE q

TenthText(t) == NatDigits(t \div 10) \o <<".", DigitChars[(t % 10) + 1]>>

\* A formatter that cuts the second decimal off instead of rounding.
FormatF1Truncate(k) ==
    IF k < 0 THEN <<"-">> \o TenthText((0 - k) \div 10)
    ELSE TenthText(k \div 10)

\* fmt.Sprintf("%.1f", k)
FormatF1(k) ==
    IF k < 0 THEN <<"-">> \o TenthText(RoundTenth(0 - k))
    ELSE TenthText(RoundTenth(k))

CoverprofileFlag == <<"-", "c", "o", "v", "e", "r", "p", "r", "o", "f", "i",
    "l", "e", "=">>

\* Where the regular expression -coverprofile=(\S+) can match in command:
\* the flag text followed by at least one non-space character.
CoverprofileAt(command) ==
    {i \in 1..Len(command) :
        /\ HasPrefixAt(command, i, CoverprofileFlag)
        /\ i + Len(CoverprofileFlag) <= Len(command)
        /\ ~IsSpace(command[i + Len(CoverprofileFlag)])}

\* The submatch of the leftmost match: the longest run of non-space
\* characters after the flag text.
CoverprofileMatch(command, i) ==
    SubSeq(command, i + Len(CoverprofileFlag),
           i + Len(CoverprofileFlag) - 1
             + RunLen(SubSeq(command, i + Len(CoverprofileFlag),
                 Len(command))))

DefaultCoverageFile == <<"c", "o", "v", "e", "r", "a", "g", "e", ".", "o",
    "u", "t">>

\* runTestsAndGetCoverage, lines 225-232
CoverageFileOf(command) ==
    IF Contains(command, CoverprofileFlag) /\ CoverprofileAt(command) # {}
    THEN CoverprofileMatch(command, SetMin(CoverprofileAt(command)))
    ELSE DefaultCoverageFile

\* What the operating system answers to runTestsAndGetCoverage: the exit
\* status of the test command, that of go tool cover, the last line of its
\* output, and whether os.Remove succeeds.
Outcome(testOK, coverOK, lastLine, removeOK) ==
    [testOK |-> testOK, coverOK |-> coverOK, lastLine |-> lastLine,
     removeOK |-> removeOK]

\* One effect on the outside world: a command executed, a file read,
\* written or removed, a text printed.
Event(ev, v, ok) == [ev |-> ev, v |-> v, ok |-> ok]

Cov(cov, err, cause) == [cov |-> cov, err |-> err, cause |-> cause]

TotalPrefix == <<"t", "o", "t", "a", "l", ":">>

\* parseCoverageFile, lines 273-280
ParsePercent(pf) ==
    IF pf.ok THEN Cov(pf.v, errNone, errNone)
    ELSE Cov(0, "could not parse coverage percentage", "ParseFloat")

\* parseCoverageFile, lines 268-273
ParseTotalLine(parts) ==
    IF Len(parts) # 3
    THEN Cov(0, "errInvalidFileFormat", "last line parts count")
    ELSE ParsePercent(ParseFloat(TrimSuffix(parts[3], <<"%">>)))

\* parseCoverageFile(filename), given what go tool cover -func=filename
\* answers.
parseCoverageFile(out) ==
    IF ~out.coverOK THEN Cov(0, "errInvalidFileFormat", "go tool cover")
    ELSE IF ~HasPrefix(out.lastLine, TotalPrefix)
    THEN Cov(0, "errInvalidFileFormat", "total line missing")
    ELSE ParseTotalLine(Fields(out.lastLine))

Tested(cov, err, cause, removeErr, events) ==
    [cov |-> cov, err |-> err, cause |-> cause, removeErr |-> removeErr,
     events |-> events]

\* A clean-up that keeps the coverage file when it could not be read.
AfterTestsCleanOnSuccess(cfg, out, file, r) ==
    Tested(r.cov, r.err, r.cause,
           cfg.AutoClean /\ r.err = errNone /\ ~out.removeOK,
           <<Event("exec", TextVal(cfg.TestCommand), TRUE),
             Event("cover", TextVal(file), out.coverOK)>>
           \o (IF cfg.AutoClean /\ r.err = errNone
               THEN <<Event("remove", TextVal(file), out.removeOK)>>
               ELSE <<>>))

\* runTestsAndGetCoverage, lines 234-240: the coverage of file is read and,
\* with AutoClean, the deferred os.Remove runs and its error is joined to
\* the call's.
AfterTests(cfg, out, file, r) ==
    Tested(r.cov, r.err, r.cause, cfg.AutoClean /\ ~out.removeOK,
           <<Event("exec", TextVal(cfg.TestCommand), TRUE),
             Event("cover", TextVal(file), out.coverOK)>>
           \o (IF cfg.AutoClean
               THEN <<Event("remove", TextVal(file), out.removeOK)>>
               ELSE <<>>))

\* a.runTestsAndGetCoverage()
runTestsAndGetCoverage(cfg, out) ==
    IF Fields(cfg.TestCommand) = <<>>
    THEN Tested(0, "errEmptyCommand", errNone, FALSE, <<>>)
    ELSE IF ~out.testOK
    THEN Tested(0, "test command failed", "exit status", FALSE,
                <<Event("exec", TextVal(cfg.TestCommand), FALSE)>>)
    ELSE AfterTests(cfg, out, CoverageFileOf(cfg.TestCommand),
                    parseCoverageFile(out))

(* text/template, for templates whose actions are field references *)

OpenDelim == <<"{", "{">>

CloseDelim == <<"}", "}">>

IdentChars ==
    {"a", "b", "c", "d", "e", "f", "g", "h", "i", "j", "k", "l", "m", "n",
     "o", "p", "q", "r", "s", "t", "u", "v", "w", "x", "y", "z", "A", "B",
     "C", "D", "E", "F", "G", "H", "I", "J", "K", "L", "M", "N", "O", "P",
     "Q", "R", "S", "T", "U", "V", "W", "X", "Y", "Z", "0", "1", "2", "3",
     "4", "5", "6", "7", "8", "9", "_"}

\* The text of an action is a field reference: a dot and an identifier.
IsFieldRef(inner) ==
    /\ Len(inner) >= 2
    /\ inner[1] = "."
    /\ \A i \in 2..Len(inner) : inner[i] \in IdentChars

TextNode(t) == [field |-> FALSE, t |-> t]

FieldNode(name) == [field |-> TRUE, t |-> name]

Parsed(nodes) == [ok |-> TRUE, nodes |-> nodes]

ParseError == [ok |-> FALSE, nodes |-> <<>>]

RECURSIVE ParseTemplate(_)

ParseField(before, inner, tail) ==
    IF ~IsFieldRef(inner) \/ ~tail.ok THEN ParseError
    ELSE Parsed((IF before = <<>> THEN <<>> ELSE <<TextNode(before)>>)
                \o <<FieldNode(Tail(inner))>> \o tail.nodes)

\* j is where the action that starts rest is closed, 0 if it never is.
ParseClose(before, rest, j) ==
    IF j = 0 THEN ParseError
    ELSE ParseField(before, TrimSpace(SubSeq(rest, 1, j - 1)),
                    ParseTemplate(SubSeq(rest, j + 2, Len(rest))))

\* i is where the first action of text opens, 0 if text has none.
ParseFrom(text, i) ==
    IF i = 0 THEN Parsed(IF text = <<>> THEN <<>> ELSE <<TextNode(text)>>)
    ELSE ParseClose(SubSeq(text, 1, i - 1), SubSeq(text, i + 2, Len(text)),
                    IndexOfText(SubSeq(text, i + 2, Len(text)), CloseDelim))

\* template.New("badge").Parse(text)
ParseTemplate(text) == ParseFrom(text, IndexOfText(text, OpenDelim))

CoverageName == <<"C", "o", "v", "e", "r", "a", "g", "e">>

ColorName == <<"C", "o", "l", "o", "r">>

TextColorName == <<"T", "e", "x", "t", "C", "o", "l", "o", "r">>

\* The fields of the struct generateBadge passes to Execute, lines 287-295.
DataFields == {CoverageName, ColorName, TextColorName}

FieldValue(data, name) ==
    CASE name = CoverageName  -> data.Coverage
      [] name = ColorName     -> data.Color
      [] name = TextColorName -> data.TextColor

RECURSIVE Rendered(_, _)
Rendered(nodes, data) ==
    IF nodes = <<>> THEN <<>>
    ELSE (IF Head(nodes).field THEN FieldValue(data, Head(nodes).t)
          ELSE Head(nodes).t)
         \o Rendered(Tail(nodes), data)

Badge(badge, err, cause, data) ==
    [badge |-> badge, err |-> err, cause |-> cause, data |-> data]

\* tmpl.Execute(&buf, data): a field the struct does not have is an error.
Execute(nodes, data) ==
    IF \E i \in 1..Len(nodes) : nodes[i].field /\ nodes[i].t \notin DataFields
    THEN Badge(<<>>, "error executing template", "can't evaluate field", data)
    ELSE Badge(Rendered(nodes, data), errNone, errNone, data)

\* generateBadge, lines 297-307
RenderBadge(tmpl, data) ==
    IF ~tmpl.ok THEN Badge(<<>>, "error parsing template", "parse", data)
    ELSE Execute(tmpl.nodes, data)

\* A badge colored after the coverage as displayed.
ColorOfDisplayed(cfg) ==
    GetColorForCoverage(cfg.Levels, ParseFloat(FormatF1(cfg.CoveragePC.v)).v)

\* generateBadge, line 284
ColorOf(cfg) == GetColorForCoverage(cfg.Levels, cfg.CoveragePC.v)

\* generateBadge, lines 285-295; tc is getOptimalTextColor's result.
BadgeData(cfg, color, tc) ==
    [Coverage |-> FormatF1(cfg.CoveragePC.v), Color |-> color,
     TextColor |-> tc.color]

\* generateBadge with the text color computed: a panic of
\* getOptimalTextColor ends the call before the template is parsed.
BadgeWith(cfg, color, tc) ==
    IF tc.panic
    THEN Badge(<<>>, "panic", "slice bounds out of range",
               [Coverage |-> <<>>, Color |-> color, TextColor |-> <<>>])
    ELSE RenderBadge(ParseTemplate(cfg.Template), BadgeData(cfg, color, tc))

BadgeOf(cfg, color) == BadgeWith(cfg, color, getOptimalTextColor(color))

\* a.generateBadge()
generateBadge(cfg) == BadgeOf(cfg, ColorOf(cfg))

(* ----------------------------- inputs of run --------------------------- *)

\* The embedded coverage-badge.tmpl: a template over the three values.
defaultTemplate ==
    <<"<", "r", "e", "c", "t", " ", "f", "i", "l", "l", "=", "\"", "{", "{",
        ".", "C", "o", "l", "o", "r", "}", "}", "\"", "/", ">", "<", "t",
        "e", "x", "t", " ", "f", "i", "l", "l", "=", "\"", "{", "{", ".",
        "T", "e", "x", "t", "C", "o", "l", "o", "r", "}", "}", "\"", ">",
        "{", "{", ".", "C", "o", "v", "e", "r", "a", "g", "e", "}", "}", "%",
        "<", "/", "t", "e", "x", "t", ">">>

\* Templates after TestGenerateBadge.
SimpleTemplate == <<"<", "t", "e", "x", "t", ">", "{", "{", ".", "C", "o",
    "v", "e", "r", "a", "g", "e", "}", "}", "%", "<", "/", "t", "e", "x",
    "t", ">", "<", "r", "e", "c", "t", " ", "f", "i", "l", "l", "=", "\"",
    "{", "{", ".", "C", "o", "l", "o", "r", "}", "}", "\"", "/", ">">>

BrokenTemplate == <<"<", "t", "e", "x", "t", ">", "{", "{", ".", "C", "o",
    "v", "e", "r", "a", "g", "e", "}", "%", "<", "/", "t", "e", "x", "t",
    ">">>

UndefinedTemplate == <<"<", "t", "e", "x", "t", ">", "{", "{", ".", "U", "n",
    "d", "e", "f", "i", "n", "e", "d", "V", "a", "r", "}", "}", "%", "<",
    "/", "t", "e", "x", "t", ">">>

SpacedTemplate == <<"{", "{", " ", ".", "C", "o", "v", "e", "r", "a", "g",
    "e", " ", "}", "}", " ", "o", "n", " ", "{", "{", ".", "C", "o", "l",
    "o", "r", "}", "}">>

TemplatePath == <<"t", ".", "t", "m", "p", "l">>

\* What os.ReadFile finds at the template path.
TemplateFiles ==
    {[exists |-> FALSE, text |-> <<>>]}
    \cup {[exists |-> TRUE, text |-> t] :
            t \in {SimpleTemplate, BrokenTemplate, UndefinedTemplate,
                   SpacedTemplate, defaultTemplate}}

\* Test commands.
CmdBlank == <<" ", " ">>

CmdPlain == <<"g", "o", " ", "t", "e", "s", "t", " ", ".", "/", ".", ".",
    ".">>

CmdProfile == <<"g", "o", " ", "t", "e", "s", "t", " ", "-", "c", "o", "v",
    "e", "r", "p", "r", "o", "f", "i", "l", "e", "=", "u", "n", "i", "t",
    ".", "c", "o", "v", " ", ".", "/", ".", ".", ".">>

CmdProfileBare == <<"g", "o", " ", "t", "e", "s", "t", " ", "-", "c", "o",
    "v", "e", "r", "p", "r", "o", "f", "i", "l", "e", "=", " ", ".", "/",
    ".", ".", ".", " ", "-", "c", "o", "v", "e", "r", "p", "r", "o", "f",
    "i", "l", "e", "=", "c", ".", "o", "u", "t">>

Commands == {<<>>, CmdBlank, CmdPlain, CmdProfile, CmdProfileBare}

\* Last lines of the output of go tool cover -func.
LineTotal == <<"t", "o", "t", "a", "l", ":", "\t", "\t", "\t", "(", "s", "t",
    "a", "t", "e", "m", "e", "n", "t", "s", ")", "\t", "\t", "8", "7", ".",
    "4", "%">>

LineTotalFine == <<"t", "o", "t", "a", "l", ":", " ", "(", "s", "t", "a",
    "t", "e", "m", "e", "n", "t", "s", ")", " ", "6", "9", ".", "9", "6",
    "%">>

LineTwoParts == <<"t", "o", "t", "a", "l", ":", " ", "8", "7", ".", "4", "%">>

LineNoNumber == <<"t", "o", "t", "a", "l", ":", " ", "(", "s", "t", "a", "t",
    "e", "m", "e", "n", "t", "s", ")", " ", "n", "/", "a">>

LineOther == <<"m", "a", "i", "n", ".", "g", "o", ":", "5", "5", ":", " ",
    "m", "a", "i", "n", " ", "0", ".", "0", "%">>

LastLines ==
    {LineTotal, LineTotalFine, LineTwoParts, LineNoNumber, LineOther, <<>>}

\* The answers of the outside world to one runTestsAndGetCoverage call.
Outcomes ==
    {Outcome(FALSE, FALSE, <<>>, TRUE)}
    \cup {Outcome(TRUE, FALSE, <<>>, rm) : rm \in BOOLEAN}
    \cup {Outcome(TRUE, TRUE, line, rm) : line \in LastLines, rm \in BOOLEAN}

\* Threshold tables of an effective configuration: Set built them, or none
\* was configured.
RunTables ==
    {NilLevels, Table({<<7000, Yellow>>, <<0, Red>>}),
     Table({<<9000, Green3>>, <<7000, Yellow>>, <<2500, Red>>})}

\* Direct coverage values, in hundredths.
DirectCoverages == {NilPtr, PtrTo(25), PtrTo(6996), PtrTo(7000), PtrTo(8545)}

\* The configurations run is called with.
RunConfigs ==
    {[ZeroConfig EXCEPT !.TestCommand = cmd, !.OutputFile = "x.svg",
                        !.Template = tpl, !.DumpTemplate = dt,
                        !.DumpConfig = dc, !.Quiet = q, !.AutoClean = ac,
                        !.Levels = lv, !.CoveragePC = cp,
                        !.ConfigFile = defaultConfigFile] :
        cmd \in Commands, tpl \in {<<>>, TemplatePath}, dt \in BOOLEAN,
        dc \in BOOLEAN, q \in BOOLEAN, ac \in BOOLEAN, lv \in RunTables,
        cp \in DirectCoverages}

(* --------------------------- state machine: run ------------------------ *)

NoData == [Coverage |-> <<>>, Color |-> <<>>, TextColor |-> <<>>]

NoOutcome == Outcome(FALSE, FALSE, <<>>, FALSE)

\* What a call of run has done so far: log holds its effects in order, out
\* the answers runTestsAndGetCoverage got, pre the configuration at the call.
RunRet(cfg) ==
    [op |-> "run", err |-> errNone, cause |-> errNone, removeErr |-> FALSE,
     log |-> <<>>, badge |-> <<>>, data |-> NoData, out |-> NoOutcome,
     pre |-> cfg]

\* a.run() on an app whose configuration loadConfig has resolved.
InitRun ==
    /\ \E cfg \in RunConfigs :
         /\ a = [ZeroApp EXCEPT !.config = cfg]
         /\ ret = RunRet(cfg)
    /\ pc = "run"
    /\ l = NilLevels /\ c = ZeroConfig /\ other = ZeroConfig /\ files = NoFiles
    /\ args = <<>> /\ cfg2 = ZeroConfig /\ coverageFlag = NilPtr

\* A dump that prefers the configuration.
DumpOfConfigFirst(cfg) ==
    IF cfg.DumpConfig THEN "config"
    ELSE IF cfg.DumpTemplate THEN "template"
    ELSE "none"

\* run, lines 169-177: which dump is asked for.
DumpOf(cfg) ==
    IF cfg.DumpTemplate THEN "template"
    ELSE IF cfg.DumpConfig THEN "config"
    ELSE "none"

\* A run that goes on after a failed step.
StepAfterKeepGoing(step, failed) ==
    CASE step = "template" -> "coverage"
      [] step = "coverage" -> "badge"
      [] step = "badge"    -> "write"
      [] step = "write"    -> "done"

\* run, lines 179-207: a failed step returns, otherwise the next one follows.
StepAfter(step, failed) ==
    IF failed THEN "done"
    ELSE CASE step = "template" -> "coverage"
           [] step = "coverage" -> "badge"
           [] step = "badge"    -> "write"
           [] step = "write"    -> "done"

\* A run that always runs the tests.
NeedsTestsAlways(cfg) == TRUE

\* run, line 183
NeedsTests(cfg) == ~cfg.CoveragePC.set

\* run, lines 169-177: the dump modes.
RunDump ==
    /\ pc = "run"
    /\ ret' = CASE DumpOf(a.config) = "template" ->
                     [ret EXCEPT !.log = Append(@, Event("dump",
                         TextVal(defaultTemplate), TRUE))]
                [] DumpOf(a.config) = "config" ->
                     [ret EXCEPT !.log = Append(@, Event("dump",
                         StrVal("defaultConfig"), TRUE))]
                [] OTHER -> ret
    /\ pc' = IF DumpOf(a.config) = "none" THEN "template" ELSE "done"
    /\ UNCHANGED <<l, c, other, a, files, args, cfg2, coverageFlag>>

\* run, lines 179-181, with loadTemplate, lines 94-107.
RunLoadTemplate ==
    /\ pc = "template"
    /\ IF a.config.Template = <<>>
       THEN /\ a' = [a EXCEPT !.config.Template = defaultTemplate]
            /\ ret' = ret
            /\ pc' = StepAfter("template", FALSE)
       ELSE \E f \in TemplateFiles :
            /\ a' = IF f.exists THEN [a EXCEPT !.config.Template = f.text] ELSE a
            /\ ret' = [ret EXCEPT
                        !.log = Append(@, Event("read",
                            TextVal(a.config.Template), f.exists)),
                        !.err = IF f.exists THEN errNone
                                ELSE "could not read template file",
                        !.cause = IF f.exists THEN errNone ELSE "ReadFile"]
            /\ pc' = StepAfter("template", ~f.exists)
    /\ UNCHANGED <<l, c, other, files, args, cfg2, coverageFlag>>

\* run, lines 183-192, with runTestsAndGetCoverage.
RunCoverage ==
    /\ pc = "coverage"
    /\ IF ~NeedsTests(a.config)
       THEN /\ a' = a
            /\ ret' = ret
            /\ pc' = StepAfter("coverage", FALSE)
       ELSE \E out \in Outcomes : \E r \in {runTestsAndGetCoverage(a.config,
           out)} :
            /\ a' = IF r.err = errNone /\ ~r.removeErr
                    THEN [a EXCEPT !.config.CoveragePC = PtrTo(r.cov)]
                    ELSE a
            /\ ret' = [ret EXCEPT
                        !.log = @ \o r.events,
                        !.out = out,
                        !.err = IF r.err = errNone /\ ~r.removeErr THEN errNone
                                ELSE "error getting coverage",
                        !.cause = r.err,
                        !.removeErr = r.removeErr]
            /\ pc' = StepAfter("coverage", r.err # errNone \/ r.removeErr)
    /\ UNCHANGED <<l, c, other, files, args, cfg2, coverageFlag>>

\* run, lines 194-197, with generateBadge.
RunGenerateBadge ==
    /\ pc = "badge"
    /\ \E r \in {generateBadge(a.config)} :
         /\ ret' = [ret EXCEPT
                     !.log = Append(@, Event("generate", TextVal(r.badge),
                         r.err = errNone)),
                     !.badge = r.badge,
                     !.data = r.data,
                     !.err = IF r.err = errNone THEN errNone
                             ELSE "error generating badge",
                     !.cause = r.err]
         /\ pc' = StepAfter("badge", r.err # errNone)
    /\ UNCHANGED <<l, c, other, a, files, args, cfg2, coverageFlag>>

\* The events of lines 199-205: the file is written and, unless Quiet, the
\* result is printed.
WriteEvents(cfg, ok) ==
    <<Event("write", StrVal(cfg.OutputFile), ok)>>
    \o (IF ok /\ ~cfg.Quiet
        THEN <<Event("print", TextVal(FormatF1(cfg.CoveragePC.v)), TRUE)>>
        ELSE <<>>)

\* run, lines 199-207, with writeBadgeFile.
RunWriteBadge ==
    /\ pc = "write"
    /\ \E ok \in BOOLEAN :
         /\ ret' = [ret EXCEPT
                     !.log = @ \o WriteEvents(a.config, ok),
                     !.err = IF ok THEN errNone ELSE "error writing badge file",
                     !.cause = IF ok THEN errNone ELSE "WriteFile"]
         /\ pc' = StepAfter("write", ~ok)
    /\ UNCHANGED <<l, c, other, a, files, args, cfg2, coverageFlag>>

NextRun ==
    RunDump \/ RunLoadTemplate \/ RunCoverage \/ RunGenerateBadge \/ RunWriteBadge

SpecRun == InitRun /\ [][NextRun]_vars

(* ------------------------------- claims -------------------------------- *)

\* The thresholds of table m that coverage cov meets.
Met(m, cov) == {t \in DOMAIN m : t <= cov}

\* C1: GetColorForCoverage(c) returns the color stored under the largest
\* threshold t with t <= c (inclusive boundary), and the fallback "#ff0001"
\* when no threshold is <= c, the empty table included.
C1_ColorOfLargestThresholdMet ==
    ret.op = "GetColorForCoverage" =>
        ret.color = IF Met(l.m, ret.coverage) = {} THEN Fallback
                    ELSE l.m[SetMax(Met(l.m, ret.coverage))]

\* A coverage equal to the middle threshold of a three-entry table.
C1_Witness ==
    /\ ret.op = "GetColorForCoverage"
    /\ Cardinality(DOMAIN l.m) = 3
    /\ ret.coverage \in DOMAIN l.m
    /\ \E t \in DOMAIN l.m : t > ret.coverage
    /\ \E t \in DOMAIN l.m : t < ret.coverage
    /\ ret.color = l.m[ret.coverage]

\* The comma-separated segments of a text, trimmed.
Segments(text) == SplitSeq(text, ",")

SegAt(text, i) == TrimSpace(Segments(text)[i])

NonEmptySegs(text) == {i \in 1..Len(Segments(text)) : SegAt(text, i) # <<>>}

HasEquals(seg) == \E j \in 1..Len(seg) : seg[j] = "="

\* The tokens left and right of the first '=' of a segment.
LeftToken(seg) == TrimSpace(SubSeq(seg, 1, IndexOf(seg, "=") - 1))

RightToken(seg) == TrimSpace(SubSeq(seg, IndexOf(seg, "=") + 1, Len(seg)))

SegLevel(seg) == IF LeftToken(seg) = <<>> THEN 0 ELSE ParseFloat(LeftToken(seg)).v

\* The last non-empty segment of text whose threshold is t.
LastWith(text, t) ==
    SetMax({i \in NonEmptySegs(text) : SegLevel(SegAt(text, i)) = t})

\* C9 as stated: a successful Set leaves exactly one entry per segment that
\* is non-empty after trimming.
C9_OneEntryPerSegment ==
    (ret.op = "Set" /\ ret.err = errNone) =>
        Cardinality(DOMAIN l.m) = Cardinality(NonEmptySegs(ret.value))

\* C9, amended: a successful Set leaves a non-nil table with exactly one
\* entry per distinct threshold among the segments that are non-empty after
\* trimming; the threshold is the number left of '=' (0 for an empty token),
\* the color is the trimmed token right of '=' of the last segment with that
\* threshold, and nothing of the previous table is kept.
C9_OneEntryPerThreshold ==
    (ret.op = "Set" /\ ret.err = errNone) =>
        /\ ~l.nil
        /\ DOMAIN l.m =
             {SegLevel(SegAt(ret.value, i)) : i \in NonEmptySegs(ret.value)}
        /\ \A t \in DOMAIN l.m :
             l.m[t] = RightToken(SegAt(ret.value, LastWith(ret.value, t)))

\* Two segments with the same threshold and different colors, set on a
\* table that had entries.
C9_Witness ==
    /\ ret.op = "Set"
    /\ ret.err = errNone
    /\ ret.pre.m # <<>>
    /\ Cardinality(NonEmptySegs(ret.value)) = 2
    /\ Cardinality(DOMAIN l.m) = 1
    /\ \E i \in NonEmptySegs(ret.value) :
         RightToken(SegAt(ret.value, i)) # l.m[SegLevel(SegAt(ret.value, i))]

\* The kind of error a trimmed, non-empty segment is rejected with, by the
\* first check it fails, "none" for a well-formed pair.
SegDefect(seg) ==
    IF ~HasEquals(seg) THEN "errInvalidLevelFormat"
    ELSE IF LeftToken(seg) # <<>> /\ ~ParseFloat(LeftToken(seg)).ok
    THEN "errInvalidLevelNumber"
    ELSE IF ~isValidHexColor(RightToken(seg)) THEN "errInvalidHexColor"
    ELSE "none"

Malformed(text) ==
    {i \in NonEmptySegs(text) : SegDefect(SegAt(text, i)) # "none"}

\* C10: Set fails exactly when some pair is malformed, wherever it stands in
\* the text, and the error is of the kind of the first malformed pair: the
\* format error without '=', the number error for a non-empty threshold
\* that is no number, the color error for a color that fails validation.
C10_ErrorKinds ==
    ret.op = "Set" =>
        ret.err = IF Malformed(ret.value) = {} THEN errNone
                  ELSE SegDefect(SegAt(ret.value, SetMin(Malformed(ret.value))))

\* A well-formed pair followed by a pair with an invalid color.
C10_Witness ==
    /\ ret.op = "Set"
    /\ ret.err = "errInvalidHexColor"
    /\ Cardinality(NonEmptySegs(ret.value)) = 2
    /\ Cardinality(Malformed(ret.value)) = 1
    /\ SetMin(NonEmptySegs(ret.value)) \notin Malformed(ret.value)

\* C3: after a merge that returns no error, the seven scalar fields of c
\* hold other's values, zero values included.
C3_ScalarFieldsOverwritten ==
    (ret.op = "merge" /\ ret.err = errNone) =>
        /\ c.TestCommand = other.TestCommand
        /\ c.OutputFile = other.OutputFile
        /\ c.Template = other.Template
        /\ c.DumpTemplate = other.DumpTemplate
        /\ c.DumpConfig = other.DumpConfig
        /\ c.Quiet = other.Quiet
        /\ c.AutoClean = other.AutoClean

\* Base {cmd A, out x.svg, quiet} merged with {cmd B}: out and quiet cleared.
C3_Witness ==
    /\ ret.op = "merge"
    /\ ret.err = errNone
    /\ ret.pre.OutputFile = "x.svg" /\ other.OutputFile = "" /\ c.OutputFile = ""
    /\ ret.pre.Quiet /\ ~other.Quiet /\ ~c.Quiet
    /\ other.TestCommand = "B" /\ c.TestCommand = "B"

Rounded(t) == Signed(t < 0, Scale * RoundHalfEven(Signed(t < 0, t)))

AllValidColors(m) == \A t \in DOMAIN m : isValidHexColor(m[t])

\* C6 as stated: after a merge that returns no error with a non-empty
\* other.Levels, c.Levels equals other.Levels entry for entry.
C6_LevelsEqualOther ==
    (ret.op = "merge" /\ ret.err = errNone /\ other.Levels.m # <<>>) =>
        c.Levels.m = other.Levels.m

\* C6, amended: a merge with a non-empty other.Levels whose colors are all
\* valid returns no error and replaces the base table wholesale by other's
\* table with every threshold rounded to zero decimals (ties to even): the
\* thresholds of c.Levels are the rounded thresholds of other.Levels, and
\* each holds the color of the largest threshold of other.Levels that rounds
\* to it; a table of integer thresholds is reproduced entry for entry.
C6_LevelsRoundedOther ==
    (ret.op = "merge" /\ other.Levels.m # <<>> /\ AllValidColors(other.Levels.m)) =>
        /\ ret.err = errNone
        /\ ~c.Levels.nil
        /\ DOMAIN c.Levels.m = {Rounded(t) : t \in DOMAIN other.Levels.m}
        /\ \A k \in DOMAIN c.Levels.m :
             c.Levels.m[k] =
                other.Levels.m[SetMax({t \in DOMAIN other.Levels.m : Rounded(t) = k})]
        /\ (\A t \in DOMAIN other.Levels.m : Rounded(t) = t) =>
              c.Levels.m = other.Levels.m

\* Two fractional thresholds that round to the same integer, merged over a
\* non-empty base table.
C6_Witness ==
    /\ ret.op = "merge"
    /\ ret.err = errNone
    /\ ret.pre.Levels.m # <<>>
    /\ Cardinality(DOMAIN other.Levels.m) = 2
    /\ Cardinality(DOMAIN c.Levels.m) = 1
    /\ DOMAIN c.Levels.m # DOMAIN other.Levels.m

\* The value of the config field that JSON key names.
FieldOf(cfg, key) ==
    CASE key = "testCommand"  -> StrVal(cfg.TestCommand)
      [] key = "outputFile"   -> StrVal(cfg.OutputFile)
      [] key = "template"     -> StrVal(cfg.Template)
      [] key = "dumpTemplate" -> BoolVal(cfg.DumpTemplate)
      [] key = "dumpConfig"   -> BoolVal(cfg.DumpConfig)
      [] key = "quiet"        -> BoolVal(cfg.Quiet)
      [] key = "autoClean"    -> BoolVal(cfg.AutoClean)

ScalarKeys == StringKeys \cup BoolKeys

DocHas(ms, key) == \E i \in 1..Len(ms) : ms[i].k = key

\* The value a document gives a key: that of its last member with the key.
DocLast(ms, key) == ms[SetMax({i \in 1..Len(ms) : ms[i].k = key})].v

\* The table a levels text denotes: one entry per threshold, the last
\* segment with a threshold giving its color.
TableOfText(text) ==
    [t \in {SegLevel(SegAt(text, i)) : i \in NonEmptySegs(text)} |->
        RightToken(SegAt(text, LastWith(text, t)))]

\* The external document has been read and applied without error.
DocRead ==
    /\ pc = "merge"
    /\ a.config.ConfigFile # ""
    /\ files[a.config.ConfigFile].exists

\* The members of the document at the configured path.
DocMembers == files[a.config.ConfigFile].doc.members

FileStepDone ==
    \/ pc = "merge"
    \/ /\ pc = "done"
       /\ ret.err \in {"failed to load config file", "failed to parse config file"}

\* No file can be read at the configured, non-empty path.
FileAbsent ==
    /\ a.config.ConfigFile # ""
    /\ ~files[a.config.ConfigFile].exists

ExplicitConfig == \E i \in 1..Len(args) : args[i].f = "config"

FatalNamingPath ==
    /\ pc = "done"
    /\ ret.err = "failed to load config file"
    /\ ret.path = a.config.ConfigFile

\* C8 as stated: an absent file is skipped at the default path and is a
\* fatal error naming the path whenever the path was given with -config.
C8_ExplicitPathMustExist ==
    (FileStepDone /\ FileAbsent) =>
        IF ExplicitConfig THEN FatalNamingPath
        ELSE pc = "merge" /\ ret.err = errNone

\* C8, amended: an absent file is skipped, the configuration untouched,
\* when the path equals the default path, also when -config gave it, and
\* so is an empty path; an absent file at any other path is a fatal error
\* whose message names the path.
C8_NonDefaultPathMustExist ==
    (FileStepDone /\ (FileAbsent \/ a.config.ConfigFile = "")) =>
        IF a.config.ConfigFile \in {"", a.defaultConfigFile}
        THEN pc = "merge" /\ ret.err = errNone /\ a.config = ret.pre
        ELSE FatalNamingPath

\* -config custom.json with no such file.
C8_Witness ==
    /\ FileAbsent
    /\ ExplicitConfig
    /\ a.config.ConfigFile = "custom.json"
    /\ FatalNamingPath

\* The flag that overrides the field a JSON key names.
FlagFor(key) ==
    CASE key = "testCommand"  -> "command"
      [] key = "outputFile"   -> "output"
      [] key = "template"     -> "template"
      [] key = "levels"       -> "levels"
      [] key = "dumpTemplate" -> "dump-template"
      [] key = "dumpConfig"   -> "dump-config"
      [] key = "quiet"        -> "quiet"
      [] key = "autoClean"    -> "auto-clean"

FlagGiven(key) == \E i \in 1..Len(args) : args[i].f = FlagFor(key)

FlagLast(key) == args[SetMax({i \in 1..Len(args) : args[i].f = FlagFor(key)})].v

\* The members of the external document loadConfig read, none when it read none.
LoadedDoc ==
    IF a.config.ConfigFile # "" /\ files[a.config.ConfigFile].exists
    THEN DocMembers ELSE <<>>

\* The value of the highest-precedence layer that sets the field: flag,
\* then external document, then embedded baseline, then the zero value.
LayeredValue(key) ==
    IF FlagGiven(key) THEN FlagLast(key)
    ELSE IF DocHas(LoadedDoc, key) THEN DocLast(LoadedDoc, key)
    ELSE IF DocHas(a.defaultConfig.members, key)
    THEN DocLast(a.defaultConfig.members, key)
    ELSE StrVal("")

\* C2: after loadConfig returns no error every scalar document field holds
\* the value of the highest-precedence layer that sets it (flag, then
\* external document, then embedded baseline), and so does the threshold
\* table when no -levels flag is given.
C2_LayerPrecedence ==
    (pc = "done" /\ ret.err = errNone) =>
        /\ \A key \in ScalarKeys : FieldOf(a.config, key) = LayeredValue(key)
        /\ ~FlagGiven("levels") =>
              a.config.Levels.m = TableOfText(LayeredValue("levels").t)

\* Baseline testCommand "A", external document testCommand "B", no -command
\* flag: loadConfig returns no error with the baseline's "A".
C2_Witness ==
    /\ pc = "done"
    /\ ret.err = errNone
    /\ ~FlagGiven("testCommand")
    /\ DocHas(LoadedDoc, "testCommand")
    /\ DocLast(LoadedDoc, "testCommand").s = "B"
    /\ DocLast(a.defaultConfig.members, "testCommand").s = "A"
    /\ a.config.TestCommand = "A"

CountEquals(seg) == Cardinality({j \in 1..Len(seg) : seg[j] = "="})

\* The first non-empty segment of a text with more than one '=', all
\* non-empty segments before it being well-formed pairs; 0 when none.
FirstMultiEquals(text) ==
    IF \E i \in NonEmptySegs(text) :
          /\ CountEquals(SegAt(text, i)) > 1
          /\ \A j \in NonEmptySegs(text) : j < i => SegDefect(SegAt(text, j)) = "none"
    THEN SetMin({i \in NonEmptySegs(text) : CountEquals(SegAt(text, i)) > 1})
    ELSE 0

\* C11: a pair with more than one '=' is rejected by Set with the format
\* error, the error of a pair with no '=' at all.
C11_MultipleEqualsIsFormatError ==
    (ret.op = "Set" /\ FirstMultiEquals(ret.value) # 0) =>
        ret.err = "errInvalidLevelFormat"

\* "80=#0f0=x" is rejected with the color error: the pair is split at its
\* first '=' only and "#0f0=x" fails hex validation.
C11_Witness ==
    /\ ret.op = "Set"
    /\ ret.value = PairTwoEquals
    /\ ret.err = "errInvalidHexColor"
    /\ ret.msg = <<"#", "0", "f", "0", "=", "x">>

\* C12: a failed Set leaves the table with exactly the entries it held
\* before the call.
C12_FailedSetKeepsTable ==
    (ret.op = "Set" /\ ret.err # errNone) => l = ret.pre

\* A failed Set on a table with entries: the previous entries are gone and
\* the pair that preceded the malformed one is stored.
C12_Witness ==
    /\ ret.op = "Set"
    /\ ret.err # errNone
    /\ ret.pre.m # <<>>
    /\ DOMAIN l.m = {8000}
    /\ 8000 \notin DOMAIN ret.pre.m
    /\ SegDefect(SegAt(ret.value, 1)) = "none"
    /\ SegDefect(SegAt(ret.value, 2)) # "none"

HexAlphabet ==
    {"0", "1", "2", "3", "4", "5", "6", "7", "8", "9",
     "a", "b", "c", "d", "e", "f", "A", "B", "C", "D", "E", "F"}

\* A valid hex color: '#' followed by exactly 3 or exactly 6 hex digits.
HexColorToken(s) ==
    /\ Len(s) \in {4, 7}
    /\ s[1] = "#"
    /\ \A i \in 2..Len(s) : s[i] \in HexAlphabet

\* C13: after a successful Set or UnmarshalJSON every value of the table is
\* a valid hex color, and for a table obtained by a successful Set the color
\* generateBadge looks up is a valid hex color (a stored one or the
\* fallback) on which getOptimalTextColor returns black or white.
C13_ParsedTableColorsValid ==
    /\ (ret.op = "Set" /\ ret.err = errNone) =>
          \A t \in DOMAIN l.m : HexColorToken(l.m[t])
    /\ (ret.op = "RoundTrip" /\ ret.err = errNone) =>
          \A t \in DOMAIN ret.l.m : HexColorToken(ret.l.m[t])
    /\ (ret.op = "generateBadge" /\ ret.parsed) =>
          /\ HexColorToken(ret.color)
          /\ ret.color = Fallback \/ \E t \in DOMAIN l.m : ret.color = l.m[t]
          /\ ~ret.textColor.panic
          /\ ret.textColor.color \in {Black, White}

\* A stored 3-digit color looked up in a parsed table of two entries.
C13_Witness ==
    /\ ret.op = "generateBadge"
    /\ ret.parsed
    /\ Cardinality(DOMAIN l.m) = 2
    /\ ret.color = Green3
    /\ ret.textColor = Returned(Black)

\* The i-th smallest threshold of table m.
NthKey(m, i) ==
    CHOOSE k \in DOMAIN m : Cardinality({j \in DOMAIN m : j < k}) = i - 1

\* A whole number written without decimals: digits after an optional '-'.
IntegerText(s) ==
    /\ s # <<>>
    /\ AllDigits(IF Head(s) = "-" THEN Tail(s) ELSE s)

\* Text s renders threshold k with zero decimals: it is a whole number and
\* no whole number is nearer to k.
RendersNearest(s, k) ==
    /\ IntegerText(s)
    /\ ParseFloat(s).v % Scale = 0
    /\ 2 * (ParseFloat(s).v - k) <= Scale
    /\ 2 * (k - ParseFloat(s).v) <= Scale

\* The i-th pair of the text is "threshold=color" for the i-th smallest
\* threshold of the table.
PairRenders(pair, m, k) ==
    /\ HasEquals(pair)
    /\ RendersNearest(SubSeq(pair, 1, IndexOf(pair, "=") - 1), k)
    /\ SubSeq(pair, IndexOf(pair, "=") + 1, Len(pair)) = m[k]

\* C14: String returns the empty text for an empty table and otherwise one
\* pair "threshold=color" per entry, joined by commas, in ascending order of
\* threshold, each threshold written as the nearest whole number without
\* decimals; MarshalJSON gives that text as one JSON string.
C14_StringSortedRounded ==
    ret.op = "String" =>
        /\ ret.json = TextVal(ret.text)
        /\ (DOMAIN l.m = {}) => ret.text = <<>>
        /\ (DOMAIN l.m # {}) =>
              /\ Len(SplitSeq(ret.text, ",")) = Cardinality(DOMAIN l.m)
              /\ \A i \in 1..Cardinality(DOMAIN l.m) :
                    PairRenders(SplitSeq(ret.text, ",")[i], l.m, NthKey(l.m, i))

\* {85.5: "#0f0", 72.3: "#ffff00"} gives "72=#ffff00,86=#0f0".
C14_Witness ==
    /\ ret.op = "String"
    /\ l = Table({<<8550, Green3>>, <<7230, Yellow>>})
    /\ ret.text = <<"7", "2", "=">> \o Yellow \o <<",", "8", "6", "=">> \o Green3

\* Every color of the table is a valid hex color.
TableColorsValid(m) == \A t \in DOMAIN m : HexColorToken(m[t])

\* C15: for a table whose thresholds are all whole numbers and whose colors
\* are all valid, parsing the serialized table succeeds and yields a table
\* equal to it.
C15_IntegerRoundTripExact ==
    (/\ ret.op = "RoundTrip"
     /\ TableColorsValid(l.m)
     /\ \A t \in DOMAIN l.m : t % Scale = 0) =>
        /\ ret.err = errNone
        /\ ret.l.m = l.m

\* A table of three whole thresholds, 0 among them, comes back unchanged.
C15_Witness ==
    /\ ret.op = "RoundTrip"
    /\ DOMAIN l.m = {0, 7000, 9000}
    /\ TableColorsValid(l.m)
    /\ ret.err = errNone
    /\ ret.l = l

\* C16 as stated: the JSON round trip of a table with valid colors keeps the
\* number of entries and holds each entry under its rounded threshold.
C16_RoundTripKeepsEveryEntry ==
    (ret.op = "RoundTrip" /\ TableColorsValid(l.m)) =>
        /\ ret.err = errNone
        /\ Cardinality(DOMAIN ret.l.m) = Cardinality(DOMAIN l.m)
        /\ \A t \in DOMAIN l.m :
             Rounded(t) \in DOMAIN ret.l.m /\ ret.l.m[Rounded(t)] = l.m[t]

\* C16, amended: the JSON round trip of a table with valid colors succeeds
\* and yields one entry per distinct rounded threshold (ties to even), each
\* with the color of the largest threshold that rounds to it; the number of
\* entries and every color are kept when no two thresholds round alike.
C16_RoundTripMergesRounded ==
    (ret.op = "RoundTrip" /\ TableColorsValid(l.m)) =>
        /\ ret.err = errNone
        /\ DOMAIN ret.l.m = {Rounded(t) : t \in DOMAIN l.m}
        /\ \A k \in DOMAIN ret.l.m :
             ret.l.m[k] = l.m[SetMax({t \in DOMAIN l.m : Rounded(t) = k})]
        /\ (\A t, u \in DOMAIN l.m : Rounded(t) = Rounded(u) => t = u) =>
              /\ Cardinality(DOMAIN ret.l.m) = Cardinality(DOMAIN l.m)
              /\ \A t \in DOMAIN l.m : ret.l.m[Rounded(t)] = l.m[t]

\* {85.5: "#0f0", 86: "#00f"} comes back as {86: "#00f"}.
C16_Witness ==
    /\ ret.op = "RoundTrip"
    /\ l = Table({<<8550, Green3>>, <<8600, Blue3>>})
    /\ ret.err = errNone
    /\ ret.l = Table({<<8600, Blue3>>})

\* C17: isValidHexColor(token) is true exactly when token is '#' followed by
\* exactly 3 or exactly 6 characters, each in [0-9a-fA-F]; for every other
\* text it returns false.
C17_ValidIffHashAnd3Or6HexDigits ==
    ret.op = "isValidHexColor" =>
        /\ ret.valid \in BOOLEAN
        /\ ret.valid <=> HexColorToken(ret.color)

\* A mixed-case 3-digit color is accepted.
C17_Witness ==
    /\ ret.op = "isValidHexColor"
    /\ ret.color = <<"#", "F", "0", "a">>
    /\ ret.valid

LowerHex == <<"0", "1", "2", "3", "4", "5", "6", "7", "8", "9", "a", "b", "c", "d", "e", "f">>

UpperHex == <<"0", "1", "2", "3", "4", "5", "6", "7", "8", "9", "A", "B", "C", "D", "E", "F">>

HexValueOf(ch) == CHOOSE v \in 0..15 : ch \in {LowerHex[v + 1], UpperHex[v + 1]}

\* The six hex digits a valid hex color stands for.
SixDigits(s) ==
    IF Len(s) = 4 THEN <<s[2], s[2], s[3], s[3], s[4], s[4]>> ELSE Tail(s)

\* Channel i (1 = red, 2 = green, 3 = blue) of a valid hex color, 0..255.
Channel(s, i) ==
    16 * HexValueOf(SixDigits(s)[2 * i - 1]) + HexValueOf(SixDigits(s)[2 * i])

\* The relative luminance of a valid hex color is strictly greater than 0.5.
Light(s) ==
    AboveHalf(WeightedHi(Channel(s, 1), Channel(s, 2), Channel(s, 3)),
              WeightedLo(Channel(s, 1), Channel(s, 2), Channel(s, 3)))

\* C18: for a valid hex color getOptimalTextColor returns "#000000" when the
\* relative luminance is strictly greater than 0.5 and "#ffffff" otherwise;
\* white gets black text, black and the grays #808080 and #a0a0a0 get white.
C18_BlackIffLuminanceAboveHalf ==
    (ret.op = "getOptimalTextColor" /\ HexColorToken(ret.hexColor)) =>
        /\ ~ret.result.panic
        /\ ret.result.color = IF Light(ret.hexColor) THEN Black ELSE White
        /\ ret.hexColor = White => ret.result.color = Black
        /\ ret.hexColor = Black => ret.result.color = White
        /\ ret.hexColor \in {<<"#", "8", "0", "8", "0", "8", "0">>,
                             <<"#", "a", "0", "a", "0", "a", "0">>} =>
              ret.result.color = White

\* #5ad373, the color whose luminance is nearest to 0.5 from below, gets
\* white text.
C18_Witness ==
    /\ ret.op = "getOptimalTextColor"
    /\ ret.hexColor = <<"#", "5", "a", "d", "3", "7", "3">>
    /\ ret.result = Returned(White)

C20_NeverFails ==
    ret.op = "getOptimalTextColor" =>
        /\ ~ret.result.panic
        /\ ret.result.color \in {Black, White}

\* "#ab": two characters are left after the '#', and hexColor[2:4] panics.
C20_Witness ==
    /\ ret.op = "getOptimalTextColor"
    /\ ret.hexColor = <<"#", "a", "b">>
    /\ ret.result = Panicked

\* loadConfig is past lines 154-163, whatever the file step's outcome.
PastFileStep ==
    \/ pc = "merge"
    \/ /\ pc = "done"
       /\ ret.err \notin {"failed to load embedded defaults", "failed to parse flags"}

\* A file can be read at the configured path and its content does not
\* parse: it is no JSON document, or its levels text has a malformed pair.
ConfigUnparsable ==
    /\ a.config.ConfigFile # ""
    /\ files[a.config.ConfigFile].exists
    /\ \/ ~files[a.config.ConfigFile].doc.valid
       \/ \E i \in 1..Len(DocMembers) :
            DocMembers[i].k = "levels" /\ Malformed(DocMembers[i].v.t) # {}

\* No value given by a flag has reached the configuration.
OverridesNotMerged ==
    /\ coverageFlag.set => ~a.config.CoveragePC.set
    /\ \A key \in StringKeys :
         FlagGiven(key) => FieldOf(a.config, key) # FlagLast(key)

\* C21: whenever the configured document can be read but does not parse,
\* at the default path as at an explicit one, loadConfig ends with the
\* error "failed to parse config file" naming that path, and the explicit
\* overrides are never merged.
C21_ParseFailureIsFatal ==
    (PastFileStep /\ ConfigUnparsable) =>
        /\ pc = "done"
        /\ ret.err = "failed to parse config file"
        /\ ret.path = a.config.ConfigFile
        /\ OverridesNotMerged

\* stampli.json holds no JSON and -command C -coverage 85.5 are given.
C21_Witness ==
    /\ pc = "done"
    /\ ConfigUnparsable
    /\ a.config.ConfigFile = a.defaultConfigFile
    /\ ~ExplicitConfig
    /\ ret.err = "failed to parse config file"
    /\ ret.path = "stampli.json"
    /\ FlagGiven("testCommand")
    /\ coverageFlag.set
    /\ ~a.config.CoveragePC.set
    /\ a.config.TestCommand # "C"

\* The flags fs.Parse rejects: a -levels text with a malformed pair, a
\* -coverage text that is no number.
BadArgs ==
    {i \in 1..Len(args) :
        \/ args[i].f = "levels" /\ Malformed(args[i].v.t) # {}
        \/ args[i].f = "coverage" /\ ~ParseFloat(args[i].v.t).ok}

\* The substring a malformed pair's error message quotes: the whole pair
\* for the format error, the threshold token for the number error, the
\* color token for the color error.
OffendingText(seg) ==
    CASE SegDefect(seg) = "errInvalidLevelFormat" -> seg
      [] SegDefect(seg) = "errInvalidLevelNumber" -> LeftToken(seg)
      [] SegDefect(seg) = "errInvalidHexColor"    -> RightToken(seg)

FirstMalformedSeg(text) == SegAt(text, SetMin(Malformed(text)))

\* The embedded defaults were loaded and fs.Parse has run.
FlagsParsed ==
    /\ pc \in {"file", "merge", "done"}
    /\ ret.err # "failed to load embedded defaults"

\* C22: a -levels value that Levels.Set rejects makes loadConfig fail with
\* "failed to parse flags", and the error carries the kind of Set's error
\* and the substring Set's message quotes.
C22_LevelsFlagErrorPropagates ==
    (FlagsParsed /\ BadArgs # {} /\ args[SetMin(BadArgs)].f = "levels") =>
        /\ pc = "done"
        /\ ret.err = "failed to parse flags"
        /\ ret.cause = SegDefect(FirstMalformedSeg(args[SetMin(BadArgs)].v.t))
        /\ ret.msg = OffendingText(FirstMalformedSeg(args[SetMin(BadArgs)].v.t))

\* -levels ab=0f0, the shape of "invalid=format": the number error quoting "ab".
C22_Witness ==
    /\ pc = "done"
    /\ BadArgs # {}
    /\ args[SetMin(BadArgs)] = Flag("levels", TextVal(PairBadBoth))
    /\ ret.err = "failed to parse flags"
    /\ ret.cause = "errInvalidLevelNumber"
    /\ ret.msg = <<"a", "b">>

\* C23: whenever loadConfig returns an error, from whichever step, the
\* configuration the caller sees is the one that stood before the failing
\* step: no field of the failing layer applied, no field cleared.
C23_NoPartialConfiguration ==
    (pc = "done" /\ ret.err # errNone) => a.config = ret.pre

\* -config custom.json, the document {testCommand B, levels "80#0f0",
\* outputFile d.svg} over the full baseline: the parse error comes with the
\* document's command stored and the baseline's table emptied.
C23_Witness ==
    /\ pc = "done"
    /\ ret.err = "failed to parse config file"
    /\ files[a.config.ConfigFile].doc = DocBadLevels
    /\ ret.pre.TestCommand = "A"
    /\ a.config.TestCommand = "B"
    /\ ret.pre.Levels.m # <<>>
    /\ a.config.Levels = EmptyLevels
    /\ a.config.OutputFile = ret.pre.OutputFile

CoverageArgs == {i \in 1..Len(args) : args[i].f = "coverage"}

\* The keys of the members a serialized configuration holds.
MarshalKeys(cfg) == {Marshal(cfg).members[i].k : i \in 1..Len(Marshal(cfg).members)}

\* C27: the direct coverage is set only by the -coverage flag. While the
\* baseline and the external document are applied CoveragePC stays nil,
\* whatever they contain; the serialized overrides hold no coverage member
\* and are the same with and without the value; and after a loadConfig
\* without error CoveragePC is set exactly when -coverage was given, to the
\* value of the last such flag.
C27_CoverageOnlyFromFlag ==
    /\ (pc \in {"flags", "file", "merge"} \/ (pc = "done" /\ ret.err # errNone)) =>
          a.config.CoveragePC = NilPtr
    /\ MarshalKeys(cfg2) \subseteq (ScalarKeys \cup {"levels"})
    /\ Marshal(cfg2) = Marshal([cfg2 EXCEPT !.CoveragePC = NilPtr])
    /\ (pc = "done" /\ ret.err = errNone) =>
          a.config.CoveragePC =
             IF CoverageArgs = {} THEN NilPtr
             ELSE PtrTo(ParseFloat(args[SetMax(CoverageArgs)].v.t).v)

\* -config custom.json -coverage 85.5, where baseline and document both
\* carry a CoveragePC member of 90: the result is 85.5.
C27_Witness ==
    /\ pc = "done"
    /\ ret.err = errNone
    /\ DocHas(a.defaultConfig.members, "CoveragePC")
    /\ a.config.ConfigFile = "custom.json"
    /\ files["custom.json"].doc = DocCoverage
    /\ CoverageArgs # {}
    /\ cfg2.CoveragePC.set
    /\ a.config.CoveragePC = PtrTo(8550)

\* How many effects of kind ev the run has had.
CountEv(ev) == Cardinality({i \in 1..Len(ret.log) : ret.log[i].ev = ev})

\* The run was called with a direct coverage value.
Direct == ret.pre.CoveragePC.set

\* generateBadge has returned a badge.
Generated == \E i \in 1..Len(ret.log) : ret.log[i].ev = "generate" /\ ret.log[i].ok

\* text shows the value k (hundredths) with one decimal place: digits, a
\* point and one digit, no further from k than half a tenth.
ShowsOneDecimal(text, k) ==
    /\ Len(text) >= 3
    /\ text[Len(text) - 1] = "."
    /\ ParseFloat(text).ok
    /\ ParseFloat(text).v - k <= 5
    /\ k - ParseFloat(text).v <= 5

\* The number go tool cover reported: the third word of its last line,
\* without the percent sign.
ReportedCoverage == ParseFloat(TrimSuffix(Fields(ret.out.lastLine)[3],
    <<"%">>)).v

\* The run got to line 183: no dump was asked for and the template loaded.
ReachedCoverage ==
    /\ ~ret.pre.DumpTemplate
    /\ ~ret.pre.DumpConfig
    /\ \/ pc \in {"badge", "write"}
       \/ pc = "done" /\ ret.err # "could not read template file"

HasCommand == \E i \in 1..Len(ret.pre.TestCommand) : ~IsSpace(ret.pre.TestCommand[i])

\* C24 as stated: with a direct value the test command is never executed
\* and the badge shows that value; without one every run executes the test
\* command exactly once and the badge shows the coverage it reported.
C24_ExactlyOneSource ==
    /\ Direct =>
          /\ CountEv("exec") = 0
          /\ Generated => ShowsOneDecimal(ret.data.Coverage,
              ret.pre.CoveragePC.v)
    /\ (~Direct /\ pc = "done") =>
          /\ CountEv("exec") = 1
          /\ Generated => ShowsOneDecimal(ret.data.Coverage, ReportedCoverage)

\* C24, amended: no run executes the test command more than once; with a
\* direct value it is never executed and a badge shows that value; without
\* one, a run that gets to the coverage step with a command that is not
\* blank executes it exactly once, and a badge is generated only after that
\* one execution and shows the coverage reported for it. Dump runs, runs
\* whose template cannot be read and runs with a blank command execute
\* nothing.
C24_OneSourcePerBadge ==
    /\ CountEv("exec") <= 1
    /\ Direct =>
          /\ CountEv("exec") = 0
          /\ Generated => ShowsOneDecimal(ret.data.Coverage,
              ret.pre.CoveragePC.v)
    /\ ~Direct =>
          /\ CountEv("exec") = IF ReachedCoverage /\ HasCommand THEN 1 ELSE 0
          /\ Generated =>
                /\ CountEv("exec") = 1
                /\ ShowsOneDecimal(ret.data.Coverage, ReportedCoverage)

\* No direct value: the command ran once, go tool cover reported 87.4% and
\* the badge that was written shows 87.4.
C24_Witness ==
    /\ pc = "done"
    /\ ret.err = errNone
    /\ ~Direct
    /\ CountEv("exec") = 1
    /\ CountEv("write") = 1
    /\ ret.out.lastLine = LineTotal
    /\ ret.data.Coverage = <<"8", "7", ".", "4">>

\* C25: a run with DumpTemplate set ends without error having written the
\* default template, and nothing else, to the dump sink; a run with
\* DumpConfig set and DumpTemplate not set ends likewise with the embedded
\* default configuration; a dump run reads no template file, executes no
\* command, generates and writes no badge, and every run that dumps had
\* one of the two modes set.
C25_DumpModesPrintAndExit ==
    /\ (pc # "run" /\ ret.pre.DumpTemplate) =>
          /\ pc = "done"
          /\ ret.err = errNone
          /\ ret.log = <<Event("dump", TextVal(defaultTemplate), TRUE)>>
    /\ (pc # "run" /\ ret.pre.DumpConfig /\ ~ret.pre.DumpTemplate) =>
          /\ pc = "done"
          /\ ret.err = errNone
          /\ ret.log = <<Event("dump", StrVal("defaultConfig"), TRUE)>>
    /\ CountEv("dump") > 0 => (ret.pre.DumpTemplate \/ ret.pre.DumpConfig)

\* Both modes set, with a template path, a command and no direct coverage:
\* only the template is dumped.
C25_Witness ==
    /\ pc = "done"
    /\ ret.pre.DumpTemplate
    /\ ret.pre.DumpConfig
    /\ ret.pre.Template = TemplatePath
    /\ ret.pre.TestCommand = CmdProfile
    /\ ~Direct
    /\ ret.log = <<Event("dump", TextVal(defaultTemplate), TRUE)>>

\* generateBadge has been called.
BadgeStepDone == CountEv("generate") = 1

\* The color of the largest threshold of the configured table that cov
\* meets, the fallback when it meets none.
BandColor(cfg, cov) ==
    IF Met(cfg.Levels.m, cov) = {} THEN Fallback
    ELSE cfg.Levels.m[SetMax(Met(cfg.Levels.m, cov))]

FieldOpen == <<"{", "{", ".">>

\* The identifier that follows position i of text.
IdentAt(text, i) ==
    SubSeq(text, i,
           SetMax({j \in (i - 1)..Len(text) :
                     \A k \in i..j : text[k] \in IdentChars}))

\* The template has an action that names a field other than the three
\* generateBadge provides.
UsesOtherField(text) ==
    \E i \in 1..Len(text) :
        /\ HasPrefixAt(text, i, FieldOpen)
        /\ IdentAt(text, i + Len(FieldOpen)) \notin DataFields

\* C26: when generateBadge has run, its Coverage is the coverage with one
\* decimal place, its Color the color of the band the coverage falls in,
\* its TextColor getOptimalTextColor(Color) and one of "#ffffff" and
\* "#000000"; a badge made from the simple template is the template's text
\* with the two values in the places that name them; and a template that
\* names any other field gives an error and no badge.
C26_ThreeTemplateValues ==
    BadgeStepDone =>
        /\ ShowsOneDecimal(ret.data.Coverage, a.config.CoveragePC.v)
        /\ ret.data.Color = BandColor(a.config, a.config.CoveragePC.v)
        /\ ret.data.TextColor = getOptimalTextColor(ret.data.Color).color
        /\ ret.data.TextColor \in {Black, White}
        /\ (Generated /\ a.config.Template = SimpleTemplate) =>
              ret.badge = <<"<", "t", "e", "x", "t",
                  ">">> \o ret.data.Coverage
                          \o <<"%", "<", "/", "t", "e", "x", "t", ">", "<",
                              "r", "e", "c", "t", " ", "f", "i", "l", "l",
                              "=", "\"">> \o ret.data.Color
                          \o <<"\"", "/", ">">>
        /\ UsesOtherField(a.config.Template) =>
              /\ ~Generated
              /\ ret.badge = <<>>
              /\ ret.err = "error generating badge"
              /\ pc = "done"

\* Coverage 85.45 with the table {90, 70, 25} and the simple template:
\* "85.5" on yellow with black text.
C26_Witness ==
    /\ BadgeStepDone
    /\ Generated
    /\ a.config.CoveragePC = PtrTo(8545)
    /\ a.config.Template = SimpleTemplate
    /\ ret.data = [Coverage |-> <<"8", "5", ".", "5">>, Color |-> Yellow,
        TextColor |-> Black]
    /\ Cardinality(DOMAIN a.config.Levels.m) = 3

\* The step of run an effect belongs to.
StepOf(ev) ==
    CASE ev = "dump"                       -> 0
      [] ev = "read"                       -> 1
      [] ev \in {"exec", "cover", "remove"} -> 2
      [] ev = "generate"                   -> 3
      [] ev \in {"write", "print"}         -> 4

\* The last line go tool cover printed is a total line with a number.
GoodLine(line) ==
    /\ HasPrefix(line, TotalPrefix)
    /\ Len(Fields(line)) = 3
    /\ ParseFloat(TrimSuffix(Fields(line)[3], <<"%">>)).ok

\* Obtaining the coverage from the test run cannot succeed: no command, a
\* failing command, no usable report, or a coverage file that AutoClean
\* cannot remove.
CoverageFails ==
    \/ ~HasCommand
    \/ ~ret.out.testOK
    \/ ~ret.out.coverOK
    \/ ~GoodLine(ret.out.lastLine)
    \/ ret.pre.AutoClean /\ ~ret.out.removeOK

\* C28: the effects of a run follow the order load template, obtain
\* coverage, generate badge, write badge file, and nothing of a later step
\* follows a failed effect. A template that cannot be read ends the run
\* before any command is executed; a failure to obtain the coverage ends it
\* with "error getting coverage" before a badge is generated; the badge
\* file is written only after a badge was generated, and no run whose error
\* comes from an earlier step has written it.
C28_StepsInOrderStopAtFailure ==
    /\ \A i, j \in 1..Len(ret.log) :
         i < j =>
            /\ StepOf(ret.log[i].ev) <= StepOf(ret.log[j].ev)
            /\ ~ret.log[i].ok => StepOf(ret.log[j].ev) = StepOf(ret.log[i].ev)
    /\ (\E i \in 1..Len(ret.log) : ret.log[i].ev = "read" /\ ~ret.log[i].ok) =>
          /\ pc = "done"
          /\ ret.err = "could not read template file"
          /\ CountEv("exec") = 0
    /\ (~Direct /\ ReachedCoverage /\ CoverageFails) =>
          /\ pc = "done"
          /\ ret.err = "error getting coverage"
          /\ CountEv("generate") = 0
    /\ CountEv("write") > 0 =>
          /\ Generated
          /\ ret.err \in {errNone, "error writing badge file"}
          /\ \A i \in 1..Len(ret.log) : ret.log[i].ev # "write" => ret.log[i].ok
    /\ ret.err \in {"could not read template file", "error getting coverage",
                    "error generating badge"} =>
          pc = "done" /\ CountEv("write") = 0

\* The template was read from its file and the tests passed, but go tool
\* cover failed: the coverage file is cleaned up, the run ends with "error
\* getting coverage", no badge generated or written.
C28_Witness ==
    /\ pc = "done"
    /\ ret.err = "error getting coverage"
    /\ Len(ret.log) = 4
    /\ ret.log[1] = Event("read", TextVal(TemplatePath), TRUE)
    /\ ret.log[2].ev = "exec" /\ ret.log[2].ok
    /\ ret.log[3].ev = "cover" /\ ~ret.log[3].ok
    /\ ret.log[4].ev = "remove" /\ ret.log[4].ok

CommandWords == Fields(ret.pre.TestCommand)

\* Where in word w the text -coverprofile= stands with something after it.
ProfileAt(w) ==
    {p \in 1..Len(w) :
        HasPrefixAt(w, p,
            CoverprofileFlag) /\ p + Len(CoverprofileFlag) <= Len(w)}

ProfileWords == {i \in 1..Len(CommandWords) : ProfileAt(CommandWords[i]) # {}}

\* What follows the first -coverprofile= of word w.
ProfileIn(w) == SubSeq(w, SetMin(ProfileAt(w)) + Len(CoverprofileFlag),
    Len(w))

\* The coverage file of the test command: the path the first word with a
\* -coverprofile=path gives, otherwise coverage.out.
ExpectedCoverageFile ==
    IF ProfileWords = {} THEN DefaultCoverageFile
    ELSE ProfileIn(CommandWords[SetMin(ProfileWords)])

\* runTestsAndGetCoverage has returned.
TestsReturned ==
    /\ ~Direct
    /\ ReachedCoverage

\* C29: when runTestsAndGetCoverage returns with AutoClean set and the test
\* command executed successfully, the coverage file (the path after
\* -coverprofile= in the command, otherwise coverage.out) has been removed
\* once, after go tool cover ran on that file and whether or not the
\* coverage could be read, and a failed removal makes the call fail; the
\* file is never removed without AutoClean, with a blank command or after a
\* failed test command.
C29_AutoCleanRemovesCoverageFile ==
    /\ (TestsReturned /\ ret.pre.AutoClean /\ HasCommand /\ ret.out.testOK) =>
          /\ CountEv("remove") = 1
          /\ \E i \in 1..(Len(ret.log) - 1) :
                /\ ret.log[i] = Event("cover", TextVal(ExpectedCoverageFile),
                                      ret.out.coverOK)
                /\ ret.log[i + 1] = Event("remove",
                    TextVal(ExpectedCoverageFile),
                                          ret.out.removeOK)
          /\ ~ret.out.removeOK =>
                /\ ret.removeErr
                /\ ret.err = "error getting coverage"
                /\ CountEv("generate") = 0
    /\ CountEv("remove") > 0 =>
          /\ ret.pre.AutoClean
          /\ HasCommand
          /\ TestsReturned
          /\ ret.out.testOK

\* AutoClean with go test -coverprofile= ./... -coverprofile=c.out: the
\* report has no total line, and c.out is removed all the same.
C29_Witness ==
    /\ TestsReturned
    /\ ret.pre.AutoClean
    /\ ret.pre.TestCommand = CmdProfileBare
    /\ ret.out.coverOK
    /\ ret.out.lastLine = LineOther
    /\ ret.cause = "errInvalidFileFormat"
    /\ ret.log[Len(ret.log)] = Event("remove", TextVal(<<"c", ".", "o", "u",
        "t">>), TRUE)

\* The thresholds the coverage misses although its one-decimal display
\* reaches them.
ReachedOnlyByDisplay ==
    {t \in DOMAIN a.config.Levels.m :
        /\ a.config.CoveragePC.v < t
        /\ ParseFloat(ret.data.Coverage).v >= t}

\* C30: the badge's color is the color of the band the exact coverage
\* falls in, for every coverage and table; a threshold that only the
\* rounded display reaches does not give its color.
C30_ColorFromExactCoverage ==
    BadgeStepDone =>
        /\ ret.data.Color =
              IF Met(a.config.Levels.m,
                  a.config.CoveragePC.v) = {} THEN Fallback
              ELSE a.config.Levels.m[SetMax(Met(a.config.Levels.m,
                                                a.config.CoveragePC.v))]
        /\ \A t \in ReachedOnlyByDisplay : ret.data.Color # a.config.Levels.m[t]

\* Threshold 70 and coverage 69.96: the badge shows "70.0" in the color of
\* the band below 70.
C30_Witness ==
    /\ BadgeStepDone
    /\ Generated
    /\ a.config.CoveragePC.v = 6996
    /\ a.config.Levels = Table({<<7000, Yellow>>, <<0, Red>>})
    /\ ret.data.Coverage = <<"7", "0", ".", "0">>
    /\ ReachedOnlyByDisplay = {7000}
    /\ ret.data.Color = Red

====
